---- MODULE Spec2Model ----
(***************************************************************************)
(* Navigation sequencing and resumable session engine of navii             *)
(* (stateManager.go over the SQLite store of db.go).                       *)
(*                                                                         *)
(* The store is modelled table by table, rows in rowid order.  The         *)
(* StateManager is modelled field by field.  Go's nil pointers are the     *)
(* values None (a *string) and NoId (an *int): the store rejects empty     *)
(* required strings and ids start at 1, so neither collides with a value.  *)
(***************************************************************************)
EXTENDS Integers, Sequences, FiniteSets, TLC

None == ""
NoId == 0

(***************************************************************************)
(* Bounds of the model.                                                    *)
(***************************************************************************)
\* rows held by nav_sessions
MaxSessions == 3
\* the cursor index (GetNextNav keeps incrementing it past the end)
MaxIndex == 4
\* rows ever inserted into queries
MaxQueryId == 2
\* page numbers and declared totals 1..MaxPage offered to SetPageNav and
\* MarkPageAsDone
MaxPage == 2
\* SetPageNav and MarkPageAsDone calls in one run
MaxPageOps == 2
\* calls that change the entity tables (Add*, Clear*, Populate) in one run
MaxMutations == 1
\* crashes of the process inside saveCurrentSession in one run
MaxCrashes == 1

(***************************************************************************)
(* The 17 formats (stateManager.go:13-31).                                 *)
(***************************************************************************)
NavFormatZip == "zip"
NavFormatZipCountry == "zip-country"
NavFormatQueryZip == "query-zip"
NavFormatQueryZipCountry == "query-zip-country"
NavFormatCity == "city"
NavFormatCityState == "city-state"
NavFormatCityStateCountry == "city-state-country"
NavFormatQueryCity == "query-city"
NavFormatQueryCityState == "query-city-state"
NavFormatQueryCityStateCountry == "query-city-state-country"
NavFormatState == "state"
NavFormatStateCountry == "state-country"
NavFormatQueryState == "query-state"
NavFormatQueryStateCountry == "query-state-country"
NavFormatQueryCounty == "query-county"
NavFormatQuery == "query"
NavFormatCounty == "county"

Formats ==
    { NavFormatZip, NavFormatZipCountry, NavFormatQueryZip, NavFormatQueryZipCountry,
      NavFormatCity, NavFormatCityState, NavFormatCityStateCountry, NavFormatQueryCity,
      NavFormatQueryCityState, NavFormatQueryCityStateCountry, NavFormatState,
      NavFormatStateCountry, NavFormatQueryState, NavFormatQueryStateCountry,
      NavFormatQueryCounty, NavFormatQuery, NavFormatCounty }

\* strings.HasPrefix(format, "query-"): "query" itself has no such prefix
HasQueryPrefix(f) ==
    f \in { NavFormatQueryZip, NavFormatQueryZipCountry, NavFormatQueryCity,
            NavFormatQueryCityState, NavFormatQueryCityStateCountry, NavFormatQueryState,
            NavFormatQueryStateCountry, NavFormatQueryCounty }

(***************************************************************************)
(* Sequence helpers.                                                       *)
(***************************************************************************)
RECURSIVE Flatten(_)
\* concatenation of a sequence of sequences
Flatten(ss) == IF ss = <<>> THEN <<>> ELSE Head(ss) \o Flatten(Tail(ss))

\* least i with Test(s[i]), 0 when there is none (a Go "first match" loop)
FirstIndex(s, Test(_)) ==
    LET I == { i \in 1..Len(s) : Test(s[i]) }
    IN  IF I = {} THEN 0 ELSE CHOOSE i \in I : \A j \in I : i <= j

\* insertion of x into the ascending sequence s (sort.Ints after an append)
RECURSIVE InsertSorted(_, _)
InsertSorted(s, x) ==
    IF s = <<>> THEN <<x>>
    ELSE IF x <= Head(s) THEN <<x>> \o s
    ELSE <<Head(s)>> \o InsertSorted(Tail(s), x)

RECURSIVE SortInts(_)
SortInts(s) == IF s = <<>> THEN <<>> ELSE InsertSorted(SortInts(Tail(s)), Head(s))

Range(s) == { s[i] : i \in 1..Len(s) }

\* all orderings of the elements of the sequence s (Go map iteration order)
RECURSIVE Perms(_)
Perms(s) ==
    IF Len(s) <= 1 THEN {s}
    ELSE UNION { { <<s[i]>> \o p :
                   p \in Perms([j \in 1..(Len(s) - 1) |-> IF j < i THEN s[j] ELSE s[j + 1]]) } :
                 i \in 1..Len(s) }

(***************************************************************************)
(* Bootstrap data (postinstall.go GetLocationData): CityData maps          *)
(* "<ISO2>#<name>" to a map from "<code>##<name>" to city names, ZipData   *)
(* maps a country code to postal codes.  A key is held as the parts that   *)
(* strings.Split yields.  Both maps are Go maps: setDefault ranges over    *)
(* them in an order the runtime chooses, so every order is offered.        *)
(***************************************************************************)
CityData ==
    << [key |-> <<"AU", "Australia">>,
        states |-> << [key |-> <<"WA", "Western Australia">>, cities |-> <<"Salem">>] >>],
       [key |-> <<"US", "United States">>,
        states |-> << [key |-> <<"WA", "Washington">>,
                       cities |-> <<"Seattle", "Salem">>] >>] >>

ZipData == << [key |-> "US", zips |-> <<"6000", "9000">>] >>

RECURSIVE StateOrders(_)
\* the orderings of the inner maps of an ordered CityData
StateOrders(cd) ==
    IF cd = <<>> THEN { <<>> }
    ELSE { <<[key |-> Head(cd).key, states |-> so]>> \o rest :
           so \in Perms(Head(cd).states), rest \in StateOrders(Tail(cd)) }

\* what GetLocationData may hand to setDefault: the data file in one of its
\* iteration orders
LocationDataChoices ==
    { [CityData |-> cd, ZipData |-> zd] :
        cd \in UNION { StateOrders(p) : p \in Perms(CityData) }, zd \in Perms(ZipData) }

(***************************************************************************)
(* Rows (db.types.go).                                                     *)
(***************************************************************************)
Country(short, name, ext) ==
    [CountryShort |-> short, Country |-> name, Used |-> FALSE, External |-> ext]

State(short, name, country, ext) ==
    [StateShort |-> short, State |-> name, CountryShort |-> country,
     Used |-> FALSE, External |-> ext]

City(name, state, country, ext) ==
    [ID |-> NoId, City |-> name, StateShort |-> state, CountryShort |-> country,
     County |-> None, Used |-> FALSE, External |-> ext]

Zip(code, country, ext) ==
    [ID |-> NoId, Zip |-> code, CountryShort |-> country, Used |-> FALSE, External |-> ext]

(***************************************************************************)
(* The store (db.go).  Every Add* validates the whole batch, then runs     *)
(* INSERT OR IGNORE row by row inside one transaction: a row that          *)
(* conflicts with a uniqueness constraint is skipped, a row that violates  *)
(* a foreign key (foreign keys are on, db.go:23) fails the statement and   *)
(* the deferred Rollback undoes the batch.  A result is [err, rows].       *)
(***************************************************************************)
RECURSIVE InsertCountries(_, _, _)
InsertCountries(tbl, recs, external) ==
    IF recs = <<>> THEN [err |-> FALSE, rows |-> tbl]
    ELSE LET r == Head(recs)
         IN  IF \E i \in 1..Len(tbl) : tbl[i].CountryShort = r.CountryShort
             THEN InsertCountries(tbl, Tail(recs), external)
             ELSE InsertCountries(Append(tbl, [r EXCEPT !.External = external]),
                                  Tail(recs), external)

DbAddCountries(tbl, recs, external) ==
    IF \E i \in 1..Len(recs) : recs[i].CountryShort = "" \/ recs[i].Country = ""
    THEN [err |-> TRUE, rows |-> tbl]
    ELSE InsertCountries(tbl, recs, external)

RECURSIVE InsertStates(_, _, _, _)
InsertStates(countriesTbl, tbl, recs, external) ==
    IF recs = <<>> THEN [err |-> FALSE, rows |-> tbl]
    ELSE LET r == Head(recs)
         IN  IF \E i \in 1..Len(tbl) :
                    tbl[i].StateShort = r.StateShort /\ tbl[i].CountryShort = r.CountryShort
             THEN InsertStates(countriesTbl, tbl, Tail(recs), external)
             ELSE IF ~ \E i \in 1..Len(countriesTbl) :
                         countriesTbl[i].CountryShort = r.CountryShort
             THEN [err |-> TRUE, rows |-> tbl]
             ELSE InsertStates(countriesTbl, Append(tbl, [r EXCEPT !.External = external]),
                               Tail(recs), external)

DbAddStates(countriesTbl, tbl, recs, external) ==
    IF \E i \in 1..Len(recs) :
          recs[i].StateShort = "" \/ recs[i].State = "" \/ recs[i].CountryShort = ""
    THEN [err |-> TRUE, rows |-> tbl]
    ELSE LET res == InsertStates(countriesTbl, tbl, recs, external)
         IN  IF res.err THEN [err |-> TRUE, rows |-> tbl] ELSE res

RECURSIVE InsertCities(_, _, _, _, _)
InsertCities(countriesTbl, statesTbl, tbl, recs, external) ==
    IF recs = <<>> THEN [err |-> FALSE, rows |-> tbl]
    ELSE LET r == Head(recs)
         IN  IF \E i \in 1..Len(tbl) :
                    /\ tbl[i].City = r.City
                    /\ tbl[i].StateShort = r.StateShort
                    /\ tbl[i].CountryShort = r.CountryShort
             THEN InsertCities(countriesTbl, statesTbl, tbl, Tail(recs), external)
             ELSE IF \/ ~ \E i \in 1..Len(statesTbl) :
                            /\ statesTbl[i].StateShort = r.StateShort
                            /\ statesTbl[i].CountryShort = r.CountryShort
                     \/ ~ \E i \in 1..Len(countriesTbl) :
                            countriesTbl[i].CountryShort = r.CountryShort
             THEN [err |-> TRUE, rows |-> tbl]
             ELSE InsertCities(countriesTbl, statesTbl,
                               Append(tbl, [r EXCEPT !.ID = Len(tbl) + 1,
                                                     !.External = external]),
                               Tail(recs), external)

DbAddCities(countriesTbl, statesTbl, tbl, recs, external) ==
    IF \E i \in 1..Len(recs) :
          recs[i].City = "" \/ recs[i].StateShort = "" \/ recs[i].CountryShort = ""
    THEN [err |-> TRUE, rows |-> tbl]
    ELSE LET res == InsertCities(countriesTbl, statesTbl, tbl, recs, external)
         IN  IF res.err THEN [err |-> TRUE, rows |-> tbl] ELSE res

RECURSIVE InsertZips(_, _, _, _)
InsertZips(countriesTbl, tbl, recs, external) ==
    IF recs = <<>> THEN [err |-> FALSE, rows |-> tbl]
    ELSE LET r == Head(recs)
         IN  IF \E i \in 1..Len(tbl) :
                    tbl[i].Zip = r.Zip /\ tbl[i].CountryShort = r.CountryShort
             THEN InsertZips(countriesTbl, tbl, Tail(recs), external)
             ELSE IF ~ \E i \in 1..Len(countriesTbl) :
                         countriesTbl[i].CountryShort = r.CountryShort
             THEN [err |-> TRUE, rows |-> tbl]
             ELSE InsertZips(countriesTbl,
                             Append(tbl, [r EXCEPT !.ID = Len(tbl) + 1,
                                                   !.External = external]),
                             Tail(recs), external)

DbAddZips(countriesTbl, tbl, recs, external) ==
    IF \E i \in 1..Len(recs) : recs[i].Zip = "" \/ recs[i].CountryShort = ""
    THEN [err |-> TRUE, rows |-> tbl]
    ELSE LET res == InsertZips(countriesTbl, tbl, recs, external)
         IN  IF res.err THEN [err |-> TRUE, rows |-> tbl] ELSE res

RECURSIVE InsertQueries(_, _, _, _)
\* seq is the AUTOINCREMENT counter of the queries table (ids are not reused
\* after ClearQueries); the result carries the new counter
InsertQueries(tbl, seq, texts, external) ==
    IF texts = <<>> THEN [err |-> FALSE, rows |-> tbl, seq |-> seq]
    ELSE IF \E i \in 1..Len(tbl) : tbl[i].Query = Head(texts)
    THEN InsertQueries(tbl, seq, Tail(texts), external)
    ELSE InsertQueries(Append(tbl, [ID |-> seq + 1, Query |-> Head(texts),
                                    Used |-> FALSE, External |-> external]),
                       seq + 1, Tail(texts), external)

DbAddQueries(tbl, seq, texts, external) ==
    IF \E i \in 1..Len(texts) : texts[i] = ""
    THEN [err |-> TRUE, rows |-> tbl, seq |-> seq]
    ELSE InsertQueries(tbl, seq, texts, external)

\* DELETE FROM queries WHERE external = 1
DbClearQueries(tbl) == SelectSeq(tbl, LAMBDA q : ~ q.External)

\* SELECT ... FROM queries: a table scan, rows in rowid order
DbGetQueries(tbl) == tbl

\* GetCountries without the WHERE clause
DbGetCountriesUnfiltered(tbl, targetCountry) == tbl

\* SELECT ... FROM countries [WHERE countryShort = ?]: a table scan in rowid
\* order for "all", the one row of the primary-key lookup otherwise
DbGetCountries(tbl, targetCountry) ==
    IF targetCountry = "all" THEN tbl
    ELSE SelectSeq(tbl, LAMBDA c : c.CountryShort = targetCountry)

\* s sorted ascending on the set of strings it holds, duplicates dropped:
\* the order in which SQLite walks the values of an IN list
StrLess(a, b) ==
    LET order == <<"AU", "CA", "MX", "US", "ZZ">>
    IN  FirstIndex(order, LAMBDA x : x = a) < FirstIndex(order, LAMBDA x : x = b)

RECURSIVE SortedCodes(_)
SortedCodes(S) ==
    IF S = {} THEN <<>>
    ELSE LET m == CHOOSE x \in S : \A y \in S \ {x} : StrLess(x, y)
         IN  <<m>> \o SortedCodes(S \ {m})

\* SELECT ... FROM states WHERE countryShort IN (...): a search of
\* idx_states_countryShort, one IN value after the other in ascending order,
\* rowid order within a value
DbGetStates(tbl, countryShorts) ==
    IF countryShorts = <<>> THEN <<>>
    ELSE LET codes == SortedCodes(Range(countryShorts))
         IN  Flatten([k \in 1..Len(codes) |->
                  SelectSeq(tbl, LAMBDA s : s.CountryShort = codes[k])])

\* SELECT ... FROM zips WHERE countryShort IN (...): as for states, over
\* idx_zips_countryShort
DbGetZips(tbl, countryShorts) ==
    IF countryShorts = <<>> THEN <<>>
    ELSE LET codes == SortedCodes(Range(countryShorts))
         IN  Flatten([k \in 1..Len(codes) |->
                  SelectSeq(tbl, LAMBDA z : z.CountryShort = codes[k])])

RECURSIVE OrTerms(_, _, _, _)
\* rows of the terms pairs[k..], a row already produced by an earlier term
\* is not produced again
OrTerms(tbl, pairs, k, seen) ==
    IF k > Len(pairs) THEN <<>>
    ELSE LET hit == SelectSeq(tbl, LAMBDA c :
                        /\ c.StateShort = pairs[k][1]
                        /\ c.CountryShort = pairs[k][2]
                        /\ c.ID \notin seen)
         IN  hit \o OrTerms(tbl, pairs, k + 1, seen \cup { hit[i].ID : i \in 1..Len(hit) })

\* SELECT ... FROM cities WHERE (stateShort = ? AND countryShort = ?) OR ...:
\* one term per (state, country) pair, states outermost; SQLite answers it
\* term by term over idx_cities_stateShort (multi-index OR), rowid order
\* within a term.  Without states it is a search by country.
DbGetCities(tbl, countryShorts, stateShorts) ==
    IF countryShorts = <<>> /\ stateShorts = <<>> THEN <<>>
    ELSE IF stateShorts # <<>>
    THEN LET nc == Len(countryShorts)
             pairs == [k \in 1..(Len(stateShorts) * nc) |->
                          << stateShorts[((k - 1) \div nc) + 1],
                             countryShorts[((k - 1) % nc) + 1] >>]
         IN  OrTerms(tbl, pairs, 1, {})
    ELSE LET codes == SortedCodes(Range(countryShorts))
         IN  Flatten([k \in 1..Len(codes) |->
                  SelectSeq(tbl, LAMBDA c : c.CountryShort = codes[k])])

\* SELECT ... FROM nav_sessions WHERE completed = 0 LIMIT 1: the position of
\* the first active row in rowid order, 0 for sql.ErrNoRows
DbGetCurrentNavSession(tbl) == FirstIndex(tbl, LAMBDA s : ~ s.Completed)

\* SELECT COUNT(*) FROM countries
DbCountTotal(countriesTbl) == Len(countriesTbl)

(***************************************************************************)
(* Navigation steps (db.types.go Nav, PageNav, NavResponse).               *)
(***************************************************************************)
EmptyNav ==
    [Query |-> None, Zip |-> None, City |-> None, State |-> None, StateShort |-> None,
     Country |-> None, CountryShort |-> None, County |-> None]

\* NavResponse.Page: nil, a PageNav, or the string "completed".  spare tells
\* whether the Pages slice has capacity beyond its length.
NilPage == [kind |-> "nil", Pages |-> <<>>, Total |-> 0, spare |-> FALSE]

CompletedPage == [kind |-> "completed", Pages |-> <<>>, Total |-> 0, spare |-> FALSE]

PageNav(pages, total, spare) ==
    [kind |-> "PageNav", Pages |-> pages, Total |-> total, spare |-> spare]

\* the page column of nav_sessions: "", or the text json.Marshal produced
EmptyBlob == [kind |-> "empty", pages |-> <<>>, total |-> 0]

\* json.Marshal of a NavResponse.Page: {"pages":[...],"total":n} for a
\* PageNav, the quoted JSON string for "completed"
MarshalPage(page) ==
    IF page.kind = "PageNav"
    THEN [kind |-> "json", pages |-> page.Pages, total |-> page.Total]
    ELSE [kind |-> "jsonString", pages |-> <<>>, total |-> 0]

\* json.Unmarshal of the page column into a PageNav (its error is dropped, a
\* text that is no object leaves the zero PageNav)
UnmarshalPage(blob, spare) ==
    IF blob.kind = "json" THEN PageNav(blob.pages, blob.total, spare)
    ELSE PageNav(<<>>, 0, FALSE)

\* a *NavResponse; ptr = "nil" is the nil pointer
NilResponse ==
    [ptr |-> "nil", Format |-> None, Nav |-> EmptyNav, Country |-> None,
     Placeholder |-> <<>>, Page |-> NilPage, HasNext |-> FALSE]

\* generatePlaceholder with the zip tested before the city
generatePlaceholderZipFirst(nav) ==
    LET q == IF nav.Query # None THEN <<nav.Query>> ELSE <<>>
        g == IF nav.Zip # None THEN <<nav.Zip>>
             ELSE IF nav.City # None THEN <<nav.City>>
             ELSE IF nav.State # None THEN <<nav.State>>
             ELSE IF nav.County # None THEN <<nav.County>>
             ELSE <<>>
    IN  IF q \o g = <<>> THEN <<"Unknown">> ELSE q \o g

\* strings.Join(parts, "##") is held as the sequence of its parts
generatePlaceholder(nav) ==
    LET q == IF nav.Query # None THEN <<nav.Query>> ELSE <<>>
        g == IF nav.City # None THEN <<nav.City>>
             ELSE IF nav.Zip # None THEN <<nav.Zip>>
             ELSE IF nav.State # None THEN <<nav.State>>
             ELSE IF nav.County # None THEN <<nav.County>>
             ELSE <<>>
    IN  IF q \o g = <<>> THEN <<"Unknown">> ELSE q \o g

(***************************************************************************)
(* Sequence expansion (generateNavOrder, addNavForQuery).                  *)
(*                                                                         *)
(* Every Nav field is a pointer.  &zip.Zip, &city.City, &state.State and   *)
(* &query.Query point into the range variable of the enclosing loop.       *)
(* With per-iteration range variables (go >= 1.22 in go.mod) each step     *)
(* keeps the value of its own iteration; with one variable per loop (an    *)
(* older go directive; the README asks for Go 1.21.1 or higher) all steps  *)
(* of one loop share the variable and read the value of its last           *)
(* iteration.  perIter selects the semantics of the build.  country is a   *)
(* parameter of addNavForQuery and the state found by findStateByShort is  *)
(* a variable of that call, so those fields are never shared.              *)
(***************************************************************************)
getStatesByCountry(states, countryShort) ==
    SelectSeq(states, LAMBDA s : s.CountryShort = countryShort)

getCitiesByCountry(cities, countryShort) ==
    SelectSeq(cities, LAMBDA c : c.CountryShort = countryShort)

getZipsByCountry(zips, countryShort) ==
    SelectSeq(zips, LAMBDA z : z.CountryShort = countryShort)

\* findStateByShort finding no state
findStateByShortNone(stateShort, states) == 0

\* index in states of the first state with that code, 0 for nil
findStateByShort(stateShort, states) ==
    FirstIndex(states, LAMBDA s : s.StateShort = stateShort)

\* the value read through a pointer to a field of the range variable of a
\* loop over s, taken in iteration i
LoopVar(s, i, perIter) == IF perIter THEN s[i] ELSE s[Len(s)]

addNavForQuery(format, perIter, hasQuery, queryText, country, states, cities, zips) ==
    LET cs == country.CountryShort
        zipAt(i) == LoopVar(zips, i, perIter).Zip
        cityAt(i) == LoopVar(cities, i, perIter).City
        stateAt(i) == LoopVar(states, i, perIter)
        ofCity(i) == states[findStateByShort(cities[i].StateShort, states)]
        resolved == SelectSeq([i \in 1..Len(cities) |-> i],
                              LAMBDA i : findStateByShort(cities[i].StateShort, states) # 0)
        withCounty == SelectSeq([i \in 1..Len(cities) |-> i],
                                LAMBDA i : cities[i].County # None)
    IN  CASE format = NavFormatZip ->
               [i \in 1..Len(zips) |-> [EmptyNav EXCEPT !.Zip = zipAt(i), !.Country = cs]]
          [] format = NavFormatZipCountry ->
               [i \in 1..Len(zips) |->
                  [EmptyNav EXCEPT !.Zip = zipAt(i), !.Country = cs, !.CountryShort = cs]]
          [] format = NavFormatQueryZip ->
               IF ~ hasQuery THEN <<>>
               ELSE [i \in 1..Len(zips) |->
                       [EmptyNav EXCEPT !.Query = queryText, !.Zip = zipAt(i), !.Country = cs]]
          [] format = NavFormatQueryZipCountry ->
               IF ~ hasQuery THEN <<>>
               ELSE [i \in 1..Len(zips) |->
                       [EmptyNav EXCEPT !.Query = queryText, !.Zip = zipAt(i),
                                        !.Country = cs, !.CountryShort = cs]]
          [] format = NavFormatCity ->
               [i \in 1..Len(cities) |-> [EmptyNav EXCEPT !.City = cityAt(i), !.Country = cs]]
          [] format = NavFormatCityState ->
               [k \in 1..Len(resolved) |->
                  [EmptyNav EXCEPT !.City = cityAt(resolved[k]),
                                   !.State = ofCity(resolved[k]).State,
                                   !.StateShort = ofCity(resolved[k]).StateShort,
                                   !.Country = cs]]
          [] format = NavFormatCityStateCountry ->
               [k \in 1..Len(resolved) |->
                  [EmptyNav EXCEPT !.City = cityAt(resolved[k]),
                                   !.State = ofCity(resolved[k]).State,
                                   !.StateShort = ofCity(resolved[k]).StateShort,
                                   !.Country = cs, !.CountryShort = cs]]
          [] format = NavFormatQueryCity ->
               IF ~ hasQuery THEN <<>>
               ELSE [i \in 1..Len(cities) |->
                       [EmptyNav EXCEPT !.Query = queryText, !.City = cityAt(i),
                                        !.Country = cs]]
          [] format = NavFormatQueryCityState ->
               IF ~ hasQuery THEN <<>>
               ELSE [k \in 1..Len(resolved) |->
                       [EmptyNav EXCEPT !.Query = queryText,
                                        !.City = cityAt(resolved[k]),
                                        !.State = ofCity(resolved[k]).State,
                                        !.StateShort = ofCity(resolved[k]).StateShort,
                                        !.Country = cs]]
          [] format = NavFormatQueryCityStateCountry ->
               IF ~ hasQuery THEN <<>>
               ELSE [k \in 1..Len(resolved) |->
                       [EmptyNav EXCEPT !.Query = queryText,
                                        !.City = cityAt(resolved[k]),
                                        !.State = ofCity(resolved[k]).State,
                                        !.StateShort = ofCity(resolved[k]).StateShort,
                                        !.Country = cs, !.CountryShort = cs]]
          [] format = NavFormatState ->
               [i \in 1..Len(states) |->
                  [EmptyNav EXCEPT !.State = stateAt(i).State,
                                   !.StateShort = stateAt(i).StateShort, !.Country = cs]]
          [] format = NavFormatStateCountry ->
               [i \in 1..Len(states) |->
                  [EmptyNav EXCEPT !.State = stateAt(i).State,
                                   !.StateShort = stateAt(i).StateShort,
                                   !.Country = cs, !.CountryShort = cs]]
          [] format = NavFormatQueryState ->
               IF ~ hasQuery THEN <<>>
               ELSE [i \in 1..Len(states) |->
                       [EmptyNav EXCEPT !.Query = queryText, !.State = stateAt(i).State,
                                        !.StateShort = stateAt(i).StateShort,
                                        !.Country = cs]]
          [] format = NavFormatQueryStateCountry ->
               IF ~ hasQuery THEN <<>>
               ELSE [i \in 1..Len(states) |->
                       [EmptyNav EXCEPT !.Query = queryText, !.State = stateAt(i).State,
                                        !.StateShort = stateAt(i).StateShort,
                                        !.Country = cs, !.CountryShort = cs]]
          [] format = NavFormatQueryCounty ->
               IF ~ hasQuery THEN <<>>
               ELSE [k \in 1..Len(withCounty) |->
                       [EmptyNav EXCEPT !.Query = queryText,
                                        !.County = cities[withCounty[k]].County,
                                        !.Country = cs]]
          [] format = NavFormatQuery ->
               IF ~ hasQuery THEN <<>>
               ELSE << [EmptyNav EXCEPT !.Query = queryText, !.Country = cs] >>
          [] format = NavFormatCounty ->
               [k \in 1..Len(withCounty) |->
                  [EmptyNav EXCEPT !.County = cities[withCounty[k]].County, !.Country = cs]]
          [] OTHER -> <<>>

\* generateNavOrder running the loop over the queries for every format
generateNavOrderCrossed(format, perIter, countries, states, cities, zips, queries) ==
    Flatten([c \in 1..Len(countries) |->
        LET country == countries[c]
            countryStates == getStatesByCountry(states, country.CountryShort)
            countryCities == getCitiesByCountry(cities, country.CountryShort)
            countryZips == getZipsByCountry(zips, country.CountryShort)
        IN  Flatten([q \in 1..Len(queries) |->
                addNavForQuery(format, perIter, TRUE, LoopVar(queries, q, perIter).Query,
                               country, countryStates, countryCities, countryZips)])])

generateNavOrder(format, perIter, countries, states, cities, zips, queries) ==
    Flatten([c \in 1..Len(countries) |->
        LET country == countries[c]
            countryStates == getStatesByCountry(states, country.CountryShort)
            countryCities == getCitiesByCountry(cities, country.CountryShort)
            countryZips == getZipsByCountry(zips, country.CountryShort)
        IN  IF HasQueryPrefix(format)
            THEN Flatten([q \in 1..Len(queries) |->
                     addNavForQuery(format, perIter, TRUE, LoopVar(queries, q, perIter).Query,
                                    country, countryStates, countryCities, countryZips)])
            ELSE addNavForQuery(format, perIter, FALSE, None,
                                country, countryStates, countryCities, countryZips)])

(***************************************************************************)
(* State.                                                                  *)
(*   db       the SQLite store: the six tables and the AUTOINCREMENT       *)
(*            counter of queries.  Rows of nav_sessions leave the table    *)
(*            only all at once and an id is read only to address the row   *)
(*            it was read from, so a session's ID is its position.         *)
(*   sm       the StateManager of the running process; sm.phase is "new"   *)
(*            between NewStateManager and Init, "ready" after Init         *)
(*   build    perIter: the loop-variable semantics of the build            *)
(*   options  the InitOptions the deployment passes to every Init          *)
(*   hist     history of the run, read by the properties only              *)
(*   consumer the position of the program that calls the manager, when    *)
(*            the run follows the program of the README                    *)
(***************************************************************************)
VARIABLES db, sm, build, options, hist, consumer

vars == <<db, sm, build, options, hist, consumer>>

\* NewDB on a fresh file: initTables leaves six empty tables
NewDB ==
    [countries |-> <<>>, states |-> <<>>, cities |-> <<>>, zips |-> <<>>,
     queries |-> <<>>, sessions |-> <<>>, seqQueries |-> 0]

\* NewStateManager: targetCountry "all", an empty navOrder, all else zero
NewStateManager ==
    [phase |-> "new", format |-> None, targetCountry |-> "all",
     currentNav |-> NilResponse, countries |-> <<>>, states |-> <<>>, cities |-> <<>>,
     zips |-> <<>>, queries |-> <<>>, currentIndex |-> 0, navOrder |-> <<>>]

\* the result of a handler: the store and the manager it leaves, the value
\* it returns and its error ("nil", "error", or "panic" for a nil dereference)
Result(d, s, ret, err) == [db |-> d, sm |-> s, ret |-> ret, err |-> err]

(***************************************************************************)
(* Entity lookups of the StateManager: the index of the first match in the *)
(* in-memory slice, 0 for nil.                                             *)
(***************************************************************************)
findCountry(s, countryShort) ==
    FirstIndex(s.countries, LAMBDA c : c.CountryShort = countryShort)

findQuery(s, id) == FirstIndex(s.queries, LAMBDA q : q.ID # NoId /\ q.ID = id)

findZip(s, id) == FirstIndex(s.zips, LAMBDA z : z.ID # NoId /\ z.ID = id)

findCity(s, id) == FirstIndex(s.cities, LAMBDA c : c.ID # NoId /\ c.ID = id)

findState(s, stateShort) == FirstIndex(s.states, LAMBDA st : st.StateShort = stateShort)

findQueryByText(s, queryText) == FirstIndex(s.queries, LAMBDA q : q.Query = queryText)

findZipByText(s, zipText) == FirstIndex(s.zips, LAMBDA z : z.Zip = zipText)

findCityByText(s, cityText) == FirstIndex(s.cities, LAMBDA c : c.City = cityText)

\* the entities a session or a response resolves to, as indices into the
\* in-memory slices (0 = nil)
Refs(country, query, zip, city, state) ==
    [country |-> country, query |-> query, zip |-> zip, city |-> city, state |-> state]

navMatches(s, nav, e) ==
    LET queryMatch == \/ nav.Query = None /\ e.query = 0
                      \/ nav.Query # None /\ e.query # 0
                           /\ nav.Query = s.queries[e.query].Query
        zipMatch == \/ nav.Zip = None /\ e.zip = 0
                    \/ nav.Zip # None /\ e.zip # 0 /\ nav.Zip = s.zips[e.zip].Zip
        cityMatch == \/ nav.City = None /\ e.city = 0
                     \/ nav.City # None /\ e.city # 0 /\ nav.City = s.cities[e.city].City
        stateMatch == \/ nav.State = None /\ e.state = 0
                      \/ nav.State # None /\ e.state # 0
                           /\ nav.State = s.states[e.state].State
        countryMatch == \/ nav.Country = None /\ e.country = 0
                        \/ nav.Country # None /\ e.country # 0
                             /\ nav.Country = s.countries[e.country].CountryShort
    IN  queryMatch /\ zipMatch /\ cityMatch /\ stateMatch /\ countryMatch

\* findNavIndex answering the last index when no step matches
findNavIndexLast(s, e) ==
    LET i == FirstIndex(s.navOrder, LAMBDA nav : navMatches(s, nav, e))
    IN  IF i = 0 THEN Len(s.navOrder) ELSE i - 1

\* the 0-based index of the first step that matches, 0 when none does
findNavIndex(s, e) ==
    LET i == FirstIndex(s.navOrder, LAMBDA nav : navMatches(s, nav, e))
    IN  IF i = 0 THEN 0 ELSE i - 1

\* spare: whether json.Unmarshal left the decoded Pages slice with capacity
\* beyond its length
buildNavResponse(s, session, e, spare) ==
    LET page == IF session.Page.kind = "completed" THEN CompletedPage
                ELSE IF session.Page.kind # "empty" THEN UnmarshalPage(session.Page, spare)
                ELSE NilPage
        n1 == IF e.query # 0 THEN [EmptyNav EXCEPT !.Query = s.queries[e.query].Query]
              ELSE EmptyNav
        n2 == IF e.zip # 0 THEN [n1 EXCEPT !.Zip = s.zips[e.zip].Zip] ELSE n1
        n3 == IF e.city # 0
              THEN [n2 EXCEPT !.City = s.cities[e.city].City,
                              !.County = s.cities[e.city].County]
              ELSE n2
        n4 == IF e.state # 0
              THEN [n3 EXCEPT !.State = s.states[e.state].State,
                              !.StateShort = s.states[e.state].StateShort]
              ELSE n3
        nav == IF e.country # 0
               THEN [n4 EXCEPT !.Country = s.countries[e.country].Country,
                               !.CountryShort = s.countries[e.country].CountryShort]
               ELSE n4
    IN  [ptr |-> "set", Format |-> session.Format, Nav |-> nav,
         Country |-> IF e.country # 0 THEN s.countries[e.country].CountryShort ELSE "",
         Placeholder |-> generatePlaceholder(nav), Page |-> page,
         HasNext |-> s.currentIndex < Len(s.navOrder) - 1]

\* buildNavResponseFromIndex answering the last step for an index past the end
buildNavResponseFromIndexClamped(s, index) ==
    IF s.navOrder = <<>> THEN NilResponse
    ELSE LET nav == s.navOrder[IF index >= Len(s.navOrder) THEN Len(s.navOrder)
                               ELSE index + 1]
             country == findCountry(s, nav.Country)
         IN  [ptr |-> "set", Format |-> s.format, Nav |-> nav,
              Country |-> IF country # 0 THEN s.countries[country].CountryShort ELSE "",
              Placeholder |-> generatePlaceholder(nav), Page |-> NilPage,
              HasNext |-> index < Len(s.navOrder) - 1]

\* buildNavResponseFromIndex reading the step before the index
buildNavResponseFromIndexStale(s, index) ==
    IF index >= Len(s.navOrder) THEN NilResponse
    ELSE LET nav == s.navOrder[IF index = 0 THEN 1 ELSE index]
             country == findCountry(s, nav.Country)
         IN  [ptr |-> "set", Format |-> s.format, Nav |-> nav,
              Country |-> IF country # 0 THEN s.countries[country].CountryShort ELSE "",
              Placeholder |-> generatePlaceholder(nav), Page |-> NilPage,
              HasNext |-> index < Len(s.navOrder) - 1]

buildNavResponseFromIndex(s, index) ==
    IF index >= Len(s.navOrder) THEN NilResponse
    ELSE LET nav == s.navOrder[index + 1]
             country == findCountry(s, nav.Country)
         IN  [ptr |-> "set", Format |-> s.format, Nav |-> nav,
              Country |-> IF country # 0 THEN s.countries[country].CountryShort ELSE "",
              Placeholder |-> generatePlaceholder(nav), Page |-> NilPage,
              HasNext |-> index < Len(s.navOrder) - 1]

(***************************************************************************)
(* Session rows.                                                           *)
(***************************************************************************)
\* INSERT INTO nav_sessions: the foreign keys of the row must resolve
\* (a NULL column is not checked)
SessionKeysResolve(d, row) ==
    /\ \E i \in 1..Len(d.countries) : d.countries[i].CountryShort = row.CountryShort
    /\ row.QueryID = NoId \/ \E i \in 1..Len(d.queries) : d.queries[i].ID = row.QueryID
    /\ row.ZipID = NoId \/ \E i \in 1..Len(d.zips) : d.zips[i].ID = row.ZipID
    /\ row.CityID = NoId \/ \E i \in 1..Len(d.cities) : d.cities[i].ID = row.CityID
    /\ row.StateShort = None
         \/ \E i \in 1..Len(d.states) :
               /\ d.states[i].StateShort = row.StateShort
               /\ d.states[i].CountryShort = row.CountryShort

DbSaveNavSession(d, row) ==
    IF SessionKeysResolve(d, row)
    THEN [err |-> FALSE,
          db |-> [d EXCEPT !.sessions = Append(@, [row EXCEPT !.ID = Len(d.sessions) + 1])]]
    ELSE [err |-> TRUE, db |-> d]

\* UPDATE nav_sessions SET page = ? WHERE id = ?  (pos is the row of that id)
DbUpdateNavSessionPage(d, pos, blob) == [d EXCEPT !.sessions[pos].Page = blob]

\* UPDATE nav_sessions SET completed = ? WHERE id = ?
DbUpdateNavSessionCompleted(d, pos, completed) ==
    [d EXCEPT !.sessions[pos].Completed = completed]

\* DELETE FROM nav_sessions WHERE completed = 0: the completed rows stay
DbResetNavSessionsActive(d) == [d EXCEPT !.sessions = SelectSeq(@, LAMBDA s : s.Completed)]

\* DELETE FROM nav_sessions
DbResetNavSessions(d) == [d EXCEPT !.sessions = <<>>]

\* ResetDatabase: one transaction clearing every used flag and all sessions
DbResetDatabase(d) ==
    [d EXCEPT !.countries = [i \in 1..Len(@) |-> [@[i] EXCEPT !.Used = FALSE]],
              !.states = [i \in 1..Len(@) |-> [@[i] EXCEPT !.Used = FALSE]],
              !.cities = [i \in 1..Len(@) |-> [@[i] EXCEPT !.Used = FALSE]],
              !.zips = [i \in 1..Len(@) |-> [@[i] EXCEPT !.Used = FALSE]],
              !.queries = [i \in 1..Len(@) |-> [@[i] EXCEPT !.Used = FALSE]],
              !.sessions = <<>>]

\* the five UPDATE ... SET used = 1 statements of markEntitiesAsUsed
markEntitiesAsUsed(d, s, e) ==
    LET cShort == IF e.country # 0 THEN s.countries[e.country].CountryShort ELSE None
        qId == IF e.query # 0 THEN s.queries[e.query].ID ELSE NoId
        zId == IF e.zip # 0 THEN s.zips[e.zip].ID ELSE NoId
        cId == IF e.city # 0 THEN s.cities[e.city].ID ELSE NoId
        st == IF e.state # 0 THEN s.states[e.state] ELSE State(None, None, None, FALSE)
    IN  [d EXCEPT
           !.countries = [i \in 1..Len(@) |->
               IF e.country # 0 /\ @[i].CountryShort = cShort
               THEN [@[i] EXCEPT !.Used = TRUE] ELSE @[i]],
           !.queries = [i \in 1..Len(@) |->
               IF qId # NoId /\ @[i].ID = qId THEN [@[i] EXCEPT !.Used = TRUE] ELSE @[i]],
           !.zips = [i \in 1..Len(@) |->
               IF zId # NoId /\ @[i].ID = zId THEN [@[i] EXCEPT !.Used = TRUE] ELSE @[i]],
           !.cities = [i \in 1..Len(@) |->
               IF cId # NoId /\ @[i].ID = cId THEN [@[i] EXCEPT !.Used = TRUE] ELSE @[i]],
           !.states = [i \in 1..Len(@) |->
               IF e.state # 0 /\ @[i].StateShort = st.StateShort
                              /\ @[i].CountryShort = st.CountryShort
               THEN [@[i] EXCEPT !.Used = TRUE] ELSE @[i]]]

\* the entities saveCurrentSession resolves for the current response
currentRefs(s) ==
    LET nav == s.currentNav.Nav
    IN  Refs(findCountry(s, s.currentNav.Country),
             IF nav.Query # None THEN findQueryByText(s, nav.Query) ELSE 0,
             IF nav.Zip # None THEN findZipByText(s, nav.Zip) ELSE 0,
             IF nav.City # None THEN findCityByText(s, nav.City) ELSE 0,
             IF nav.StateShort # None THEN findState(s, nav.StateShort) ELSE 0)

\* result [db, err]
saveCurrentSession(d, s) ==
    IF s.currentNav.ptr = "nil" THEN [db |-> d, err |-> "nil"]
    ELSE LET e == currentRefs(s)
         IN  IF e.country = 0 THEN [db |-> d, err |-> "panic"]
             ELSE LET row == [ID |-> NoId,
                              Format |-> s.currentNav.Format,
                              CountryShort |-> s.countries[e.country].CountryShort,
                              QueryID |-> IF e.query # 0 THEN s.queries[e.query].ID ELSE NoId,
                              ZipID |-> IF e.zip # 0 THEN s.zips[e.zip].ID ELSE NoId,
                              CityID |-> IF e.city # 0 THEN s.cities[e.city].ID ELSE NoId,
                              StateShort |-> IF e.state # 0
                                             THEN s.states[e.state].StateShort ELSE None,
                              Page |-> IF s.currentNav.Page.kind # "nil"
                                       THEN MarshalPage(s.currentNav.Page) ELSE EmptyBlob,
                              Completed |-> FALSE,
                              External |-> TRUE]
                      saved == DbSaveNavSession(d, row)
                  IN  IF saved.err THEN [db |-> d, err |-> "error"]
                      ELSE [db |-> markEntitiesAsUsed(saved.db, s, e), err |-> "nil"]

\* the entities a stored session resolves to on restore
sessionRefs(s, session) ==
    Refs(findCountry(s, session.CountryShort),
         IF session.QueryID # NoId THEN findQuery(s, session.QueryID) ELSE 0,
         IF session.ZipID # NoId THEN findZip(s, session.ZipID) ELSE 0,
         IF session.CityID # NoId THEN findCity(s, session.CityID) ELSE 0,
         IF session.StateShort # None THEN findState(s, session.StateShort) ELSE 0)

\* restoreOrStartSession without the restore branch: a session is started
\* whether or not an active one exists
restoreOrStartSessionFresh(d, s, spare) ==
    LET s1 == [s EXCEPT !.currentNav = buildNavResponseFromIndex(s, 0)]
    IN  IF s1.currentNav.ptr # "nil"
        THEN LET saved == saveCurrentSession(d, s1)
             IN  Result(saved.db, s1, NilResponse, saved.err)
        ELSE Result(d, s1, NilResponse, "nil")

restoreOrStartSession(d, s, spare) ==
    LET pos == DbGetCurrentNavSession(d.sessions)
    IN  IF pos # 0
        THEN LET session == d.sessions[pos]
                 e == sessionRefs(s, session)
                 s1 == [s EXCEPT !.currentIndex = findNavIndex(s, e)]
                 s2 == [s1 EXCEPT !.currentNav = buildNavResponse(s1, session, e, spare)]
             IN  Result(d, s2, NilResponse, "nil")
        ELSE LET s1 == [s EXCEPT !.currentNav = buildNavResponseFromIndex(s, 0)]
             IN  IF s1.currentNav.ptr # "nil"
                 THEN LET saved == saveCurrentSession(d, s1)
                      IN  Result(saved.db, s1, NilResponse, saved.err)
                 ELSE Result(d, s1, NilResponse, "nil")

(***************************************************************************)
(* Handlers of the StateManager.  Each is an operator from the store and   *)
(* the manager (and its arguments) to a Result.                            *)
(***************************************************************************)
\* the rows setDefault collects from the bootstrap data; a key that does not
\* split into exactly two parts is skipped together with what it holds
SeedRows(ld) ==
    LET okC == SelectSeq(ld.CityData, LAMBDA c : Len(c.key) = 2)
        okS(c) == SelectSeq(c.states, LAMBDA st : Len(st.key) = 2)
    IN  [countries |-> [i \in 1..Len(okC) |-> Country(okC[i].key[1], okC[i].key[2], FALSE)],
         states |-> Flatten([i \in 1..Len(okC) |->
                       [j \in 1..Len(okS(okC[i])) |->
                          State(okS(okC[i])[j].key[1], okS(okC[i])[j].key[2],
                                okC[i].key[1], FALSE)]]),
         cities |-> Flatten([i \in 1..Len(okC) |->
                       Flatten([j \in 1..Len(okS(okC[i])) |->
                          [k \in 1..Len(okS(okC[i])[j].cities) |->
                             City(okS(okC[i])[j].cities[k], okS(okC[i])[j].key[1],
                                  okC[i].key[1], FALSE)]])]),
         zips |-> Flatten([i \in 1..Len(ld.ZipData) |->
                     [k \in 1..Len(ld.ZipData[i].zips) |->
                        Zip(ld.ZipData[i].zips[k], ld.ZipData[i].key, FALSE)]])]

\* result [db, err]; executeTransaction only calls fn, so the four inserts
\* are four transactions and an error leaves the earlier ones in place
setDefault(d, ld) ==
    IF DbCountTotal(d.countries) > 0 THEN [db |-> d, err |-> "nil"]
    ELSE LET rows == SeedRows(ld)
             r1 == DbAddCountries(d.countries, rows.countries, FALSE)
             d1 == [d EXCEPT !.countries = r1.rows]
             r2 == DbAddStates(d1.countries, d1.states, rows.states, FALSE)
             d2 == [d1 EXCEPT !.states = r2.rows]
             r3 == DbAddCities(d2.countries, d2.states, d2.cities, rows.cities, FALSE)
             d3 == [d2 EXCEPT !.cities = r3.rows]
             r4 == DbAddZips(d3.countries, d3.zips, rows.zips, FALSE)
             d4 == [d3 EXCEPT !.zips = r4.rows]
         IN  IF r1.err THEN [db |-> d, err |-> "error"]
             ELSE IF r2.err THEN [db |-> d1, err |-> "error"]
             ELSE IF r3.err THEN [db |-> d2, err |-> "error"]
             ELSE IF r4.err THEN [db |-> d3, err |-> "error"]
             ELSE [db |-> d4, err |-> "nil"]

CountryShorts(countries) == [i \in 1..Len(countries) |-> countries[i].CountryShort]

StateShorts(states) == [i \in 1..Len(states) |-> states[i].StateShort]

\* generateNavOrder without the reset of sm.navOrder: the steps are appended
\* to those of the previous expansion
RegenerateAppending(s, perIter) ==
    [s EXCEPT !.navOrder = @ \o generateNavOrder(s.format, perIter, s.countries, s.states,
                                                 s.cities, s.zips, s.queries)]

\* sm.generateNavOrder() on the manager s
Regenerate(s, perIter) ==
    [s EXCEPT !.navOrder = generateNavOrder(s.format, perIter, s.countries, s.states,
                                            s.cities, s.zips, s.queries)]

\* Init once the countries and the states are loaded: the loads of cities,
\* zips and queries, the expansion, and the restore or start of a session
initLoaded(d, s, countries, states, perIter, spare) ==
    restoreOrStartSession(d,
        Regenerate([s EXCEPT !.countries = countries, !.states = states,
                             !.cities = DbGetCities(d.cities, CountryShorts(countries),
                                                    StateShorts(states)),
                             !.zips = DbGetZips(d.zips, CountryShorts(countries)),
                             !.queries = DbGetQueries(d.queries),
                             !.currentIndex = 0], perIter),
        spare)

\* Init once the countries are loaded
initCountries(d, s, countries, perIter, spare) ==
    initLoaded(d, s, countries, DbGetStates(d.states, CountryShorts(countries)),
               perIter, spare)

\* Init after setDefault returned sd
initSeeded(sd, s, perIter, spare) ==
    IF sd.err # "nil" THEN Result(sd.db, s, NilResponse, sd.err)
    ELSE [initCountries(sd.db, s, DbGetCountries(sd.db.countries, s.targetCountry),
                        perIter, spare)
            EXCEPT !.sm.phase = "ready", !.ret = NilResponse]

\* Init(options): ld is what GetLocationData returns
InitSM(d, s, opts, ld, perIter, spare) ==
    initSeeded(setDefault(d, ld),
               [s EXCEPT !.format = opts.Format, !.targetCountry = opts.TargetCountry],
               perIter, spare)

\* GetNav / GetCurrentNav
GetNav(s) == s.currentNav

\* GetNextNav without the test for an active session
GetNextNavUnguarded(d, s) ==
    LET s1 == [s EXCEPT !.currentIndex = @ + 1]
        s2 == [s1 EXCEPT !.currentNav = buildNavResponseFromIndex(s1, s1.currentIndex)]
    IN  IF s2.currentNav.ptr # "nil"
        THEN LET saved == saveCurrentSession(d, s2)
             IN  Result(saved.db, s2, s2.currentNav, saved.err)
        ELSE Result(d, s2, s2.currentNav, "nil")

GetNextNav(d, s) ==
    LET pos == DbGetCurrentNavSession(d.sessions)
    IN  IF pos # 0 /\ ~ d.sessions[pos].Completed
        THEN Result(d, s, s.currentNav, "nil")
        ELSE LET s1 == [s EXCEPT !.currentIndex = @ + 1]
                 s2 == [s1 EXCEPT !.currentNav = buildNavResponseFromIndex(s1, s1.currentIndex)]
             IN  IF s2.currentNav.ptr # "nil"
                 THEN LET saved == saveCurrentSession(d, s2)
                      IN  Result(saved.db, s2, s2.currentNav, saved.err)
                 ELSE Result(d, s2, s2.currentNav, "nil")

SetPageNav(d, s, totalPages, pages, spare) ==
    IF s.currentNav.ptr = "nil" THEN Result(d, s, NilResponse, "nil")
    ELSE LET pageNav == PageNav(pages, totalPages, spare)
             s1 == [s EXCEPT !.currentNav.Page = pageNav]
             pos == DbGetCurrentNavSession(d.sessions)
         IN  IF pos # 0
             THEN Result(DbUpdateNavSessionPage(d, pos, MarshalPage(pageNav)), s1,
                         NilResponse, "nil")
             ELSE Result(d, s1, NilResponse, "nil")

MarkComplete(d, s) ==
    LET pos == DbGetCurrentNavSession(d.sessions)
    IN  IF pos # 0
        THEN IF s.currentNav.ptr = "nil"
             THEN Result(DbUpdateNavSessionCompleted(d, pos, TRUE), s, NilResponse, "panic")
             ELSE Result(DbUpdateNavSessionCompleted(d, pos, TRUE),
                         [s EXCEPT !.currentNav.Page = CompletedPage], NilResponse, "nil")
        ELSE Result(d, s, NilResponse, "nil")

\* MarkPageAsDone without the already-marked test, storing the appended list
\* in the response
MarkPageAsDoneAppend(d, s, page) ==
    IF s.currentNav.ptr = "nil" \/ s.currentNav.Page.kind = "completed"
    THEN Result(d, s, NilResponse, "nil")
    ELSE IF s.currentNav.Page.kind # "PageNav" THEN Result(d, s, NilResponse, "nil")
    ELSE LET held == s.currentNav.Page
             local == SortInts(Append(held.Pages, page))
             s1 == [s EXCEPT !.currentNav.Page.Pages = local]
             pos == DbGetCurrentNavSession(d.sessions)
         IN  IF pos # 0
             THEN LET d1 == DbUpdateNavSessionPage(d, pos,
                                MarshalPage(PageNav(local, held.Total, FALSE)))
                  IN  IF Len(local) = held.Total THEN MarkComplete(d1, s1)
                      ELSE Result(d1, s1, NilResponse, "nil")
             ELSE Result(d, s1, NilResponse, "nil")

\* pageNav is a copy of the PageNav held in the response: the append and the
\* sort work on the copy and the copy is never stored back.  When the Pages
\* slice has spare capacity the append writes into the shared backing array
\* and sort.Ints reorders it, so the response then shows the first
\* len(Pages) elements of the sorted list; without spare capacity the
\* response keeps its list.
MarkPageAsDone(d, s, page) ==
    IF s.currentNav.ptr = "nil" \/ s.currentNav.Page.kind = "completed"
    THEN Result(d, s, NilResponse, "nil")
    ELSE IF s.currentNav.Page.kind # "PageNav" THEN Result(d, s, NilResponse, "nil")
    ELSE IF page \in Range(s.currentNav.Page.Pages) THEN Result(d, s, NilResponse, "nil")
    ELSE LET held == s.currentNav.Page
             local == SortInts(Append(held.Pages, page))
             s1 == IF held.spare
                   THEN [s EXCEPT !.currentNav.Page.Pages = SubSeq(local, 1, Len(held.Pages))]
                   ELSE s
             pos == DbGetCurrentNavSession(d.sessions)
         IN  IF pos # 0
             THEN LET d1 == DbUpdateNavSessionPage(d, pos,
                                MarshalPage(PageNav(local, held.Total, FALSE)))
                  IN  IF Len(local) = held.Total THEN MarkComplete(d1, s1)
                      ELSE Result(d1, s1, NilResponse, "nil")
             ELSE Result(d, s1, NilResponse, "nil")

\* AddSearchQueries validating row by row: the texts that are not empty are
\* inserted and the sequence expanded before the error is returned
AddSearchQueriesPartial(d, s, texts, perIter) ==
    IF Len(texts) = 0 THEN Result(d, s, NilResponse, "nil")
    ELSE LET ok == SelectSeq(texts, LAMBDA t : t # "")
             added == DbAddQueries(d.queries, d.seqQueries, ok, TRUE)
             d1 == [d EXCEPT !.queries = added.rows, !.seqQueries = added.seq]
         IN  Result(d1, Regenerate([s EXCEPT !.queries = DbGetQueries(d1.queries)], perIter),
                    NilResponse, IF Len(ok) < Len(texts) THEN "error" ELSE "nil")

AddSearchQueries(d, s, texts, perIter) ==
    IF Len(texts) = 0 THEN Result(d, s, NilResponse, "nil")
    ELSE LET added == DbAddQueries(d.queries, d.seqQueries, texts, TRUE)
             d1 == [d EXCEPT !.queries = added.rows, !.seqQueries = added.seq]
         IN  IF added.err THEN Result(d, s, NilResponse, "error")
             ELSE Result(d1, Regenerate([s EXCEPT !.queries = DbGetQueries(d1.queries)],
                                        perIter),
                         NilResponse, "nil")

\* ClearQueries deletes the external queries; nav_sessions.queryId is
\* declared ON DELETE SET NULL
ClearSearchQueries(d, s, perIter) ==
    LET kept == DbClearQueries(d.queries)
        keptIds == { kept[i].ID : i \in 1..Len(kept) }
        d1 == [d EXCEPT !.queries = kept,
                        !.sessions = [i \in 1..Len(@) |->
                            IF @[i].QueryID # NoId /\ @[i].QueryID \notin keptIds
                            THEN [@[i] EXCEPT !.QueryID = NoId] ELSE @[i]]]
    IN  Result(d1, Regenerate([s EXCEPT !.queries = <<>>], perIter), NilResponse, "nil")

ResetNav(d, s, spare) ==
    restoreOrStartSession(DbResetNavSessions(d),
                          [s EXCEPT !.currentIndex = 0, !.currentNav = NilResponse], spare)

\* reloads countries, states and cities (not zips, not queries)
refreshData(d, s, perIter) ==
    LET countries == DbGetCountries(d.countries, s.targetCountry)
        states == DbGetStates(d.states, CountryShorts(countries))
        cities == DbGetCities(d.cities, CountryShorts(countries), StateShorts(states))
    IN  Result(d, Regenerate([s EXCEPT !.countries = countries, !.states = states,
                                       !.cities = cities], perIter),
               NilResponse, "nil")

\* cities: records with City, State, StateShort, CountryShort
AddCities(d, s, cities, perIter) ==
    IF Len(cities) = 0 THEN Result(d, s, NilResponse, "nil")
    ELSE IF \E i \in 1..Len(cities) :
               \/ cities[i].City = "" \/ cities[i].State = ""
               \/ cities[i].StateShort = "" \/ cities[i].CountryShort = ""
    THEN Result(d, s, NilResponse, "error")
    ELSE LET dbCities == [i \in 1..Len(cities) |->
                 City(cities[i].City, cities[i].StateShort, cities[i].CountryShort, TRUE)]
             added == DbAddCities(d.countries, d.states, d.cities, dbCities, TRUE)
         IN  IF added.err THEN Result(d, s, NilResponse, "error")
             ELSE refreshData([d EXCEPT !.cities = added.rows], s, perIter)

\* states: records with State, StateShort, CountryShort
AddStates(d, s, states, perIter) ==
    IF Len(states) = 0 THEN Result(d, s, NilResponse, "nil")
    ELSE IF \E i \in 1..Len(states) :
               states[i].State = "" \/ states[i].StateShort = "" \/ states[i].CountryShort = ""
    THEN Result(d, s, NilResponse, "error")
    ELSE LET dbStates == [i \in 1..Len(states) |->
                 State(states[i].StateShort, states[i].State, states[i].CountryShort, TRUE)]
             added == DbAddStates(d.countries, d.states, dbStates, TRUE)
         IN  IF added.err THEN Result(d, s, NilResponse, "error")
             ELSE refreshData([d EXCEPT !.states = added.rows], s, perIter)

\* countries: records with Country, CountryShort
AddCountries(d, s, countries, perIter) ==
    IF Len(countries) = 0 THEN Result(d, s, NilResponse, "nil")
    ELSE IF \E i \in 1..Len(countries) :
               countries[i].CountryShort = "" \/ countries[i].Country = ""
    THEN Result(d, s, NilResponse, "error")
    ELSE LET dbCountries == [i \in 1..Len(countries) |->
                 Country(countries[i].CountryShort, countries[i].Country, TRUE)]
             added == DbAddCountries(d.countries, dbCountries, TRUE)
         IN  IF added.err THEN Result(d, s, NilResponse, "error")
             ELSE refreshData([d EXCEPT !.countries = added.rows], s, perIter)

\* the sample data; the manager's slices are not reloaded before the
\* sequence is regenerated
Populate(d, s, perIter) ==
    LET r1 == DbAddCountries(d.countries, << Country("US", "United States", TRUE) >>, TRUE)
        d1 == [d EXCEPT !.countries = r1.rows]
        r2 == DbAddStates(d1.countries, d1.states,
                          << State("CA", "California", "US", TRUE) >>, TRUE)
        d2 == [d1 EXCEPT !.states = r2.rows]
        r3 == DbAddZips(d2.countries, d2.zips, << Zip("90001", "US", TRUE) >>, TRUE)
        d3 == [d2 EXCEPT !.zips = r3.rows]
        r4 == DbAddQueries(d3.queries, d3.seqQueries, <<"Realtor", "Restaurant">>, TRUE)
        d4 == [d3 EXCEPT !.queries = r4.rows, !.seqQueries = r4.seq]
    IN  IF r1.err THEN Result(d, s, NilResponse, "error")
        ELSE IF r2.err THEN Result(d1, s, NilResponse, "error")
        ELSE IF r3.err THEN Result(d2, s, NilResponse, "error")
        ELSE IF r4.err THEN Result(d3, s, NilResponse, "error")
        ELSE Result(d4, Regenerate(s, perIter), NilResponse, "nil")

ResetDatabase(d, s, perIter) == refreshData(DbResetDatabase(d), s, perIter)

(***************************************************************************)
(* Crashes.  saveCurrentSession issues its INSERT and markEntitiesAsUsed   *)
(* its UPDATEs as separate autocommitted statements (executeTransaction    *)
(* only calls fn and saveCurrentSession does not go through it), so the    *)
(* process can stop after the insert and any number of the updates.        *)
(***************************************************************************)
\* the references e with those of the statements after the first j of
\* markEntitiesAsUsed (country, query, zip, city, state) set to nil
FirstRefs(e, j) ==
    Refs(IF j >= 1 THEN e.country ELSE 0, IF j >= 2 THEN e.query ELSE 0,
         IF j >= 3 THEN e.zip ELSE 0, IF j >= 4 THEN e.city ELSE 0,
         IF j >= 5 THEN e.state ELSE 0)

\* the store a successful saveCurrentSession(d, s) has written when the
\* process stops after the insert and the first j statements of
\* markEntitiesAsUsed
saveCurrentSessionUpTo(d, s, j) ==
    markEntitiesAsUsed([d EXCEPT !.sessions = saveCurrentSession(d, s).db.sessions],
                       s, FirstRefs(currentRefs(s), j))

\* the process stops inside the saveCurrentSession that the handler with
\* result r ran on the store d: r.sm is the manager at the time of the save
crashInSave(d, r, j) == Result(saveCurrentSessionUpTo(d, r.sm, j), r.sm, NilResponse, "panic")

(***************************************************************************)
(* Store failures.  Every call into the store (sm.db.X, sm.db.db.Exec) can *)
(* return an error.  For a handler H, HCalls is the number of store calls  *)
(* a run of H makes when none fails, and HFailing(..., k) is the result of *)
(* the run in which the k-th call fails, the calls before it having had    *)
(* their effect (the result of H itself when the run makes fewer calls).   *)
(***************************************************************************)
\* the statements of markEntitiesAsUsed that are executed for the references
\* e, as positions 1..5 (country, query, zip, city, state)
MarkStatements(e) ==
    SelectSeq(<<1, 2, 3, 4, 5>>,
              LAMBDA p : << e.country, e.query, e.zip, e.city, e.state >>[p] # 0)

\* saveCurrentSession on a manager with a response: SaveNavSession, then the
\* statements of markEntitiesAsUsed; none when findCountry returned nil (the
\* nil dereference comes before the insert)
saveCurrentSessionCalls(d, s) ==
    IF s.currentNav.ptr = "nil" THEN 0
    ELSE LET e == currentRefs(s)
         IN  IF e.country = 0 THEN 0
             ELSE IF saveCurrentSession(d, s).err # "nil" THEN 1
             ELSE 1 + Len(MarkStatements(e))

\* saveCurrentSession dropping the result of markEntitiesAsUsed
saveCurrentSessionFailingUnchecked(d, s, k) ==
    IF k < 1 \/ k > saveCurrentSessionCalls(d, s) THEN saveCurrentSession(d, s)
    ELSE IF k = 1 THEN [db |-> d, err |-> "error"]
    ELSE [db |-> saveCurrentSessionUpTo(d, s, MarkStatements(currentRefs(s))[k - 1] - 1),
          err |-> "nil"]

\* result [db, err]
saveCurrentSessionFailing(d, s, k) ==
    IF k < 1 \/ k > saveCurrentSessionCalls(d, s) THEN saveCurrentSession(d, s)
    ELSE IF k = 1 THEN [db |-> d, err |-> "error"]
    ELSE [db |-> saveCurrentSessionUpTo(d, s, MarkStatements(currentRefs(s))[k - 1] - 1),
          err |-> "error"]

\* GetNextNav: GetCurrentNavSession, then the calls of saveCurrentSession
\* when the cursor moved onto a step
GetNextNavCalls(d, s) ==
    IF DbGetCurrentNavSession(d.sessions) # 0 THEN 1
    ELSE 1 + saveCurrentSessionCalls(d, GetNextNav(d, s).sm)

GetNextNavFailing(d, s, k) ==
    LET r == GetNextNav(d, s)
        saved == saveCurrentSessionFailing(d, r.sm, k - 1)
    IN  IF k < 1 THEN r
        ELSE IF k = 1 THEN Result(d, s, NilResponse, "error")
        ELSE IF DbGetCurrentNavSession(d.sessions) # 0 THEN r
        ELSE Result(saved.db, r.sm, r.ret, saved.err)

\* MarkComplete: GetCurrentNavSession, then UpdateNavSession when a session
\* is active
MarkCompleteCalls(d, s) == IF DbGetCurrentNavSession(d.sessions) # 0 THEN 2 ELSE 1

MarkCompleteFailing(d, s, k) ==
    IF k < 1 \/ k > MarkCompleteCalls(d, s) THEN MarkComplete(d, s)
    ELSE Result(d, s, NilResponse, "error")

\* SetPageNav: the response gets its page, then GetCurrentNavSession and
\* UpdateNavSession
SetPageNavCalls(d, s) ==
    IF s.currentNav.ptr = "nil" THEN 0 ELSE IF DbGetCurrentNavSession(d.sessions) # 0 THEN 2 ELSE 1

SetPageNavFailing(d, s, totalPages, pages, spare, k) ==
    IF k < 1 \/ k > SetPageNavCalls(d, s) THEN SetPageNav(d, s, totalPages, pages, spare)
    ELSE Result(d, SetPageNav(d, s, totalPages, pages, spare).sm, NilResponse, "error")

\* the page list MarkPageAsDone builds in its local copy
markedPages(s, page) == SortInts(Append(s.currentNav.Page.Pages, page))

\* the manager MarkPageAsDone leaves before it calls MarkComplete
markedManager(s, page) ==
    IF s.currentNav.Page.spare
    THEN [s EXCEPT !.currentNav.Page.Pages =
                      SubSeq(markedPages(s, page), 1, Len(s.currentNav.Page.Pages))]
    ELSE s

\* the store MarkPageAsDone leaves before it calls MarkComplete
markedStore(d, s, page) ==
    DbUpdateNavSessionPage(d, DbGetCurrentNavSession(d.sessions),
        MarshalPage(PageNav(markedPages(s, page), s.currentNav.Page.Total, FALSE)))

\* MarkPageAsDone: GetCurrentNavSession, UpdateNavSession, then the calls of
\* MarkComplete when the list reached the total
MarkPageAsDoneCalls(d, s, page) ==
    IF \/ s.currentNav.ptr = "nil"
       \/ s.currentNav.Page.kind # "PageNav"
       \/ page \in Range(s.currentNav.Page.Pages)
    THEN 0
    ELSE IF DbGetCurrentNavSession(d.sessions) = 0 THEN 1
    ELSE IF Len(markedPages(s, page)) # s.currentNav.Page.Total THEN 2
    ELSE 2 + MarkCompleteCalls(markedStore(d, s, page), markedManager(s, page))

MarkPageAsDoneFailing(d, s, page, k) ==
    IF k < 1 \/ k > MarkPageAsDoneCalls(d, s, page) THEN MarkPageAsDone(d, s, page)
    ELSE IF k <= 2 THEN Result(d, markedManager(s, page), NilResponse, "error")
    ELSE MarkCompleteFailing(markedStore(d, s, page), markedManager(s, page), k - 2)

\* restoreOrStartSession: GetCurrentNavSession, then the calls of
\* saveCurrentSession when no session is active
restoreOrStartSessionCalls(d, s, spare) ==
    IF DbGetCurrentNavSession(d.sessions) # 0 THEN 1
    ELSE 1 + saveCurrentSessionCalls(d, restoreOrStartSession(d, s, spare).sm)

restoreOrStartSessionFailing(d, s, spare, k) ==
    LET r == restoreOrStartSession(d, s, spare)
        saved == saveCurrentSessionFailing(d, r.sm, k - 1)
    IN  IF k < 1 THEN r
        ELSE IF k = 1 THEN Result(d, s, NilResponse, "error")
        ELSE IF DbGetCurrentNavSession(d.sessions) # 0 THEN r
        ELSE Result(saved.db, r.sm, NilResponse, saved.err)

\* ResetNav: ResetNavSessions, then the calls of restoreOrStartSession
ResetNavCalls(d, s, spare) ==
    1 + restoreOrStartSessionCalls(DbResetNavSessions(d),
            [s EXCEPT !.currentIndex = 0, !.currentNav = NilResponse], spare)

ResetNavFailing(d, s, spare, k) ==
    IF k < 1 THEN ResetNav(d, s, spare)
    ELSE IF k = 1 THEN Result(d, s, NilResponse, "error")
    ELSE restoreOrStartSessionFailing(DbResetNavSessions(d),
             [s EXCEPT !.currentIndex = 0, !.currentNav = NilResponse], spare, k - 1)

\* refreshData: GetCountries, GetStates, GetCities; each slice is stored in
\* the manager as soon as it is read
refreshDataCalls == 3

refreshDataFailing(d, s, perIter, k) ==
    LET countries == DbGetCountries(d.countries, s.targetCountry)
        states == DbGetStates(d.states, CountryShorts(countries))
    IN  IF k < 1 \/ k > refreshDataCalls THEN refreshData(d, s, perIter)
        ELSE IF k = 1 THEN Result(d, s, NilResponse, "error")
        ELSE IF k = 2 THEN Result(d, [s EXCEPT !.countries = countries], NilResponse, "error")
        ELSE Result(d, [s EXCEPT !.countries = countries, !.states = states],
                    NilResponse, "error")

\* ResetDatabase: the store's ResetDatabase (one transaction), then the
\* calls of refreshData
ResetDatabaseCalls == 1 + refreshDataCalls

ResetDatabaseFailing(d, s, perIter, k) ==
    IF k < 1 \/ k > ResetDatabaseCalls THEN ResetDatabase(d, s, perIter)
    ELSE IF k = 1 THEN Result(d, s, NilResponse, "error")
    ELSE refreshDataFailing(DbResetDatabase(d), s, perIter, k - 1)

\* AddCities, AddStates, AddCountries: no call for an empty or rejected
\* batch; otherwise the store's AddX (one transaction), then the calls of
\* refreshData
addedCities(d, cities) ==
    DbAddCities(d.countries, d.states, d.cities,
                [i \in 1..Len(cities) |->
                    City(cities[i].City, cities[i].StateShort, cities[i].CountryShort, TRUE)],
                TRUE)

AddCitiesCalls(d, s, cities, perIter) ==
    IF Len(cities) = 0 THEN 0
    ELSE IF \E i \in 1..Len(cities) :
               \/ cities[i].City = "" \/ cities[i].State = ""
               \/ cities[i].StateShort = "" \/ cities[i].CountryShort = ""
    THEN 0
    ELSE IF addedCities(d, cities).err THEN 1 ELSE 1 + refreshDataCalls

AddCitiesFailing(d, s, cities, perIter, k) ==
    IF k < 1 \/ k > AddCitiesCalls(d, s, cities, perIter) THEN AddCities(d, s, cities, perIter)
    ELSE IF k = 1 THEN Result(d, s, NilResponse, "error")
    ELSE refreshDataFailing([d EXCEPT !.cities = addedCities(d, cities).rows], s, perIter, k - 1)

addedStates(d, states) ==
    DbAddStates(d.countries, d.states,
                [i \in 1..Len(states) |->
                    State(states[i].StateShort, states[i].State, states[i].CountryShort, TRUE)],
                TRUE)

AddStatesCalls(d, s, states, perIter) ==
    IF Len(states) = 0 THEN 0
    ELSE IF \E i \in 1..Len(states) :
               states[i].State = "" \/ states[i].StateShort = "" \/ states[i].CountryShort = ""
    THEN 0
    ELSE IF addedStates(d, states).err THEN 1 ELSE 1 + refreshDataCalls

AddStatesFailing(d, s, states, perIter, k) ==
    IF k < 1 \/ k > AddStatesCalls(d, s, states, perIter) THEN AddStates(d, s, states, perIter)
    ELSE IF k = 1 THEN Result(d, s, NilResponse, "error")
    ELSE refreshDataFailing([d EXCEPT !.states = addedStates(d, states).rows], s, perIter, k - 1)

addedCountries(d, countries) ==
    DbAddCountries(d.countries,
                   [i \in 1..Len(countries) |->
                       Country(countries[i].CountryShort, countries[i].Country, TRUE)],
                   TRUE)

AddCountriesCalls(d, s, countries, perIter) ==
    IF Len(countries) = 0 THEN 0
    ELSE IF \E i \in 1..Len(countries) :
               countries[i].CountryShort = "" \/ countries[i].Country = ""
    THEN 0
    ELSE IF addedCountries(d, countries).err THEN 1 ELSE 1 + refreshDataCalls

AddCountriesFailing(d, s, countries, perIter, k) ==
    IF k < 1 \/ k > AddCountriesCalls(d, s, countries, perIter)
    THEN AddCountries(d, s, countries, perIter)
    ELSE IF k = 1 THEN Result(d, s, NilResponse, "error")
    ELSE refreshDataFailing([d EXCEPT !.countries = addedCountries(d, countries).rows],
                            s, perIter, k - 1)

\* AddSearchQueries: no call for an empty list; otherwise the store's
\* AddQueries (one transaction), then GetQueries
AddSearchQueriesCalls(d, s, texts, perIter) ==
    IF Len(texts) = 0 THEN 0
    ELSE IF DbAddQueries(d.queries, d.seqQueries, texts, TRUE).err THEN 1 ELSE 2

AddSearchQueriesFailing(d, s, texts, perIter, k) ==
    IF k < 1 \/ k > AddSearchQueriesCalls(d, s, texts, perIter)
    THEN AddSearchQueries(d, s, texts, perIter)
    ELSE IF k = 1 THEN Result(d, s, NilResponse, "error")
    ELSE Result([d EXCEPT !.queries = DbAddQueries(@, d.seqQueries, texts, TRUE).rows,
                          !.seqQueries = DbAddQueries(d.queries, @, texts, TRUE).seq],
                s, NilResponse, "error")

\* ClearSearchQueries: the store's ClearQueries
ClearSearchQueriesCalls == 1

ClearSearchQueriesFailing(d, s, perIter, k) ==
    IF k < 1 \/ k > ClearSearchQueriesCalls THEN ClearSearchQueries(d, s, perIter)
    ELSE Result(d, s, NilResponse, "error")

\* the stores setDefault(d, ld) writes on an empty store: element j is the
\* store before its j-th insert (element 5 the store after the last), each
\* insert being attempted only when those before it succeeded
seedStores(d, ld) ==
    LET rows == SeedRows(ld)
        r1 == DbAddCountries(d.countries, rows.countries, FALSE)
        d1 == [d EXCEPT !.countries = r1.rows]
        r2 == DbAddStates(d1.countries, d1.states, rows.states, FALSE)
        d2 == [d1 EXCEPT !.states = r2.rows]
        r3 == DbAddCities(d2.countries, d2.states, d2.cities, rows.cities, FALSE)
        d3 == [d2 EXCEPT !.cities = r3.rows]
        r4 == DbAddZips(d3.countries, d3.zips, rows.zips, FALSE)
        d4 == [d3 EXCEPT !.zips = r4.rows]
    IN  IF r1.err THEN << d >>
        ELSE IF r2.err THEN << d, d1 >>
        ELSE IF r3.err THEN << d, d1, d2 >>
        ELSE IF r4.err THEN << d, d1, d2, d3 >>
        ELSE << d, d1, d2, d3, d4 >>

\* setDefault: CountTotal, then on an empty store AddCountries, AddStates,
\* AddCities, AddZips (a transaction each) up to the first that fails
setDefaultCalls(d, ld) ==
    IF DbCountTotal(d.countries) > 0 THEN 1
    ELSE IF Len(seedStores(d, ld)) = 5 THEN 5 ELSE 1 + Len(seedStores(d, ld))

\* result [db, err]
setDefaultFailing(d, ld, k) ==
    IF k < 1 \/ k > setDefaultCalls(d, ld) THEN setDefault(d, ld)
    ELSE IF k = 1 THEN [db |-> d, err |-> "error"]
    ELSE [db |-> seedStores(d, ld)[k - 1], err |-> "error"]

\* the manager of Init after the first j of its five reads (GetCountries,
\* GetStates, GetCities, GetZips, GetQueries) on the store d
initRead(d, s, j) ==
    LET countries == DbGetCountries(d.countries, s.targetCountry)
        states == DbGetStates(d.states, CountryShorts(countries))
    IN  [s EXCEPT !.countries = IF j >= 1 THEN countries ELSE @,
                  !.states = IF j >= 2 THEN states ELSE @,
                  !.cities = IF j >= 3
                             THEN DbGetCities(d.cities, CountryShorts(countries),
                                              StateShorts(states))
                             ELSE @,
                  !.zips = IF j >= 4 THEN DbGetZips(d.zips, CountryShorts(countries)) ELSE @,
                  !.queries = IF j >= 5 THEN DbGetQueries(d.queries) ELSE @]

\* Init: the calls of setDefault, the five reads, then the calls of
\* restoreOrStartSession
InitCalls(d, s, opts, ld, perIter, spare) ==
    LET sd == setDefault(d, ld)
    IN  IF sd.err # "nil" THEN setDefaultCalls(d, ld)
        ELSE setDefaultCalls(d, ld) + 5
             + restoreOrStartSessionCalls(sd.db,
                   Regenerate([initRead(sd.db,
                                        [s EXCEPT !.format = opts.Format,
                                                  !.targetCountry = opts.TargetCountry], 5)
                                 EXCEPT !.currentIndex = 0], perIter), spare)

InitFailing(d, s, opts, ld, perIter, spare, k) ==
    LET s0 == [s EXCEPT !.format = opts.Format, !.targetCountry = opts.TargetCountry]
        n == setDefaultCalls(d, ld)
        sd == setDefault(d, ld)
    IN  IF k < 1 \/ (sd.err # "nil" /\ k > n) THEN InitSM(d, s, opts, ld, perIter, spare)
        ELSE IF k <= n THEN Result(setDefaultFailing(d, ld, k).db, s0, NilResponse, "error")
        ELSE IF k <= n + 5
        THEN Result(sd.db, initRead(sd.db, s0, k - n - 1), NilResponse, "error")
        ELSE IF k > InitCalls(d, s, opts, ld, perIter, spare)
        THEN InitSM(d, s, opts, ld, perIter, spare)
        ELSE [restoreOrStartSessionFailing(sd.db,
                  Regenerate([initRead(sd.db, s0, 5) EXCEPT !.currentIndex = 0], perIter),
                  spare, k - n - 5)
                EXCEPT !.sm.phase = "ready"]

(***************************************************************************)
(* Inputs offered to the handlers.                                         *)
(***************************************************************************)
\* the deployment in which the runs of the model paginate
PageOptions == [Format |-> NavFormatZip, TargetCountry |-> "US"]

\* the options the deployments of the model run with: one per shape of
\* session (zip, city with state over every country, query with zip)
Deployments ==
    { PageOptions,
      [Format |-> NavFormatCityState, TargetCountry |-> "all"],
      [Format |-> NavFormatQueryZip, TargetCountry |-> "US"] }

\* page lists for SetPageNav: none done yet, or the last page done first
PageLists == { <<>>, << MaxPage >> }

QueryBatches == { <<"Realtor">>, <<"Dentist">>, <<"Dentist", "">> }

NewCity(city, state, stateShort, countryShort) ==
    [City |-> city, State |-> state, StateShort |-> stateShort, CountryShort |-> countryShort]

\* Salem of California needs the state row that AddStates or Populate inserts
CityBatches ==
    { << NewCity("Salem", "California", "CA", "US") >>,
      << NewCity("Salem", "California", "CA", "US"), NewCity("", "California", "CA", "US") >> }

StateBatches ==
    { << [State |-> "California", StateShort |-> "CA", CountryShort |-> "US"] >>,
      << [State |-> "California", StateShort |-> "CA", CountryShort |-> "US"],
         [State |-> "", StateShort |-> "NM", CountryShort |-> "US"] >> }

CountryBatches ==
    { << [Country |-> "Canada", CountryShort |-> "CA"] >>,
      << [Country |-> "Canada", CountryShort |-> "CA"],
         [Country |-> "Mexico", CountryShort |-> ""] >> }

(***************************************************************************)
(* History of the run.                                                     *)
(*   lastIndex  the cursor index for which the newest session row was      *)
(*              inserted, -1 while nav_sessions is empty                   *)
(*   muts       the number of Add* and Populate calls so far               *)
(*   changed    whether an Add*, Populate or ClearSearchQueries call was   *)
(*              made so far                                                *)
(*   pageOps    the number of SetPageNav and MarkPageAsDone calls so far   *)
(*   crashes    the number of crashes inside saveCurrentSession so far     *)
(***************************************************************************)
NoHist ==
    [lastIndex |-> -1, muts |-> 0, changed |-> FALSE, pageOps |-> 0, crashes |-> 0]

\* the step of the system that runs a handler with result r; a panic ends
\* the process.  kind is "mutation" for Add* and Populate, "clear" for
\* ClearSearchQueries, "page" for SetPageNav and MarkPageAsDone, "reset" for
\* ResetNav, "crash" for a crash inside a save ("crashReset" when the save is
\* that of ResetNav) and "call" otherwise.
Apply(r, kind) ==
    LET inserted == \/ Len(r.db.sessions) > Len(db.sessions)
                    \/ kind \in {"reset", "crashReset"} /\ r.db.sessions # <<>>
    IN  /\ kind = "mutation" => hist.muts < MaxMutations /\ hist.pageOps = 0
                                  /\ hist.crashes = 0
        /\ kind = "clear" => hist.pageOps = 0 /\ hist.crashes = 0
        /\ kind = "page" => hist.pageOps < MaxPageOps /\ ~ hist.changed
                              /\ options = PageOptions /\ hist.crashes = 0
        /\ kind \in {"crash", "crashReset"} => hist.crashes < MaxCrashes
                                                /\ hist.pageOps = 0 /\ ~ hist.changed
        /\ Len(r.db.sessions) <= MaxSessions
        /\ r.db.seqQueries <= MaxQueryId
        /\ r.sm.currentIndex <= MaxIndex
        /\ db' = r.db
        /\ sm' = IF r.err = "panic" THEN NewStateManager ELSE r.sm
        /\ hist' = [lastIndex |-> IF inserted THEN r.sm.currentIndex
                                  ELSE IF r.db.sessions = <<>> THEN -1
                                  ELSE hist.lastIndex,
                    muts |-> IF kind = "mutation" THEN hist.muts + 1 ELSE hist.muts,
                    changed |-> hist.changed \/ kind \in {"mutation", "clear"},
                    pageOps |-> IF kind = "page" THEN hist.pageOps + 1 ELSE hist.pageOps,
                    crashes |-> IF kind \in {"crash", "crashReset"} THEN hist.crashes + 1
                                ELSE hist.crashes]
        /\ UNCHANGED <<build, options, consumer>>

(***************************************************************************)
(* Specification.                                                          *)
(***************************************************************************)
\* no program is followed: the methods are called in any order
NoConsumer == [pc |-> "any", seen |-> {}, failed |-> FALSE]

Init ==
    /\ db = NewDB
    /\ sm = NewStateManager
    /\ build \in [perIter : BOOLEAN]
    /\ options \in Deployments
    /\ hist = NoHist
    /\ consumer = NoConsumer

DoInit ==
    /\ sm.phase = "new"
    /\ \E ld \in LocationDataChoices, spare \in BOOLEAN :
          Apply(InitSM(db, sm, options, ld, build.perIter, spare), "call")

\* the process stops; a new process constructs a StateManager on the store
Restart ==
    /\ sm.phase = "ready"
    /\ sm' = NewStateManager
    /\ UNCHANGED <<db, build, options, hist, consumer>>

DoGetNextNav ==
    /\ sm.phase = "ready"
    /\ Apply(GetNextNav(db, sm), "call")

DoSetPageNav ==
    /\ sm.phase = "ready"
    /\ \E total \in 1..MaxPage, pages \in PageLists, spare \in BOOLEAN :
          /\ spare => pages # <<>>
          /\ Apply(SetPageNav(db, sm, total, pages, spare), "page")

DoMarkPageAsDone ==
    /\ sm.phase = "ready"
    /\ \E page \in 1..MaxPage :
          Apply(MarkPageAsDone(db, sm, page), "page")

DoMarkComplete ==
    /\ sm.phase = "ready"
    /\ Apply(MarkComplete(db, sm), "call")

DoResetNav ==
    /\ sm.phase = "ready"
    /\ \E spare \in BOOLEAN : Apply(ResetNav(db, sm, spare), "reset")

DoResetDatabase ==
    /\ sm.phase = "ready"
    /\ Apply(ResetDatabase(db, sm, build.perIter), "call")

DoAddSearchQueries ==
    /\ sm.phase = "ready"
    /\ \E texts \in QueryBatches :
          Apply(AddSearchQueries(db, sm, texts, build.perIter), "mutation")

DoClearSearchQueries ==
    /\ sm.phase = "ready"
    /\ Apply(ClearSearchQueries(db, sm, build.perIter), "clear")

DoAddCities ==
    /\ sm.phase = "ready"
    /\ \E cities \in CityBatches : Apply(AddCities(db, sm, cities, build.perIter), "mutation")

DoAddStates ==
    /\ sm.phase = "ready"
    /\ \E states \in StateBatches : Apply(AddStates(db, sm, states, build.perIter), "mutation")

DoAddCountries ==
    /\ sm.phase = "ready"
    /\ \E countries \in CountryBatches :
          Apply(AddCountries(db, sm, countries, build.perIter), "mutation")

DoPopulate ==
    /\ sm.phase = "ready"
    /\ Apply(Populate(db, sm, build.perIter), "mutation")

\* the process stops inside the saveCurrentSession of Init, after the insert
\* and j of the statements of markEntitiesAsUsed
CrashInInit ==
    /\ sm.phase = "new"
    /\ hist.crashes < MaxCrashes
    /\ \E ld \in LocationDataChoices :
          /\ Len(InitSM(db, sm, options, ld, build.perIter, FALSE).db.sessions)
                > Len(db.sessions)
          /\ \E j \in 0..4 :
                Apply(crashInSave(setDefault(db, ld).db,
                                  InitSM(db, sm, options, ld, build.perIter, FALSE), j),
                      "crash")

\* the process stops inside the saveCurrentSession of GetNextNav
CrashInGetNextNav ==
    /\ sm.phase = "ready"
    /\ hist.crashes < MaxCrashes
    /\ Len(GetNextNav(db, sm).db.sessions) > Len(db.sessions)
    /\ \E j \in 0..4 : Apply(crashInSave(db, GetNextNav(db, sm), j), "crash")

\* the process stops inside the saveCurrentSession of ResetNav, after the
\* sessions were deleted
CrashInResetNav ==
    /\ sm.phase = "ready"
    /\ hist.crashes < MaxCrashes
    /\ ResetNav(db, sm, FALSE).db.sessions # <<>>
    /\ \E j \in 0..4 :
          Apply(crashInSave(DbResetNavSessions(db), ResetNav(db, sm, FALSE), j),
                "crashReset")

Next ==
    \/ DoInit
    \/ Restart
    \/ DoGetNextNav
    \/ DoSetPageNav
    \/ DoMarkPageAsDone
    \/ DoMarkComplete
    \/ DoResetNav
    \/ DoResetDatabase
    \/ DoAddSearchQueries
    \/ DoClearSearchQueries
    \/ DoAddCities
    \/ DoAddStates
    \/ DoAddCountries
    \/ DoPopulate
    \/ CrashInInit
    \/ CrashInGetNextNav
    \/ CrashInResetNav

Spec == Init /\ [][Next]_vars

(***************************************************************************)
(* The program of the README (Basic State Manager Setup) and of            *)
(* ExampleUsage: NewStateManager, Init, the provisioning of the store,     *)
(* then the loop that reads GetNav and calls GetNextNav until one of them  *)
(* answers nil or GetNextNav returns an error.  consumer.pc is the call    *)
(* the program makes next, consumer.seen the cursors of the steps GetNav   *)
(* has shown, consumer.failed whether a call returned an error.            *)
(***************************************************************************)
\* a call of the program with result r, after which it is at pc
Run(r, pc, seen) ==
    /\ db' = r.db
    /\ sm' = IF r.err = "panic" THEN NewStateManager ELSE r.sm
    /\ consumer' = [pc |-> IF r.err = "nil" THEN pc ELSE "done",
                    seen |-> seen,
                    failed |-> r.err # "nil"]
    /\ UNCHANGED <<build, options, hist>>

\* what the program may do to provision the store: Populate as in the
\* README, one of the Add* calls, or nothing
Provisions(d, s, perIter) ==
    {Result(d, s, NilResponse, "nil"), Populate(d, s, perIter)}
    \cup { AddSearchQueries(d, s, texts, perIter) : texts \in QueryBatches }
    \cup { AddCities(d, s, cities, perIter) : cities \in CityBatches }
    \cup { AddStates(d, s, states, perIter) : states \in StateBatches }
    \cup { AddCountries(d, s, countries, perIter) : countries \in CountryBatches }

LoopStart ==
    /\ db = NewDB
    /\ sm = NewStateManager
    /\ build \in [perIter : BOOLEAN]
    /\ options \in Deployments
    /\ hist = NoHist
    /\ consumer = [pc |-> "Init", seen |-> {}, failed |-> FALSE]

LoopInit ==
    /\ consumer.pc = "Init"
    /\ \E ld \in LocationDataChoices :
          Run(InitSM(db, sm, options, ld, build.perIter, FALSE), "Populate", {})

LoopPopulate ==
    /\ consumer.pc = "Populate"
    /\ \E r \in Provisions(db, sm, build.perIter) : Run(r, "GetNav", {})

\* nav := sm.GetNav(); if nav == nil { break }
LoopGetNav ==
    /\ consumer.pc = "GetNav"
    /\ consumer' = IF GetNav(sm).ptr = "nil" THEN [consumer EXCEPT !.pc = "done"]
                   ELSE [consumer EXCEPT !.pc = "GetNextNav",
                                         !.seen = @ \cup {sm.currentIndex}]
    /\ UNCHANGED <<db, sm, build, options, hist>>

\* nextNav, err := sm.GetNextNav(); if err != nil { break };
\* if nextNav == nil { break }
LoopGetNextNav ==
    /\ consumer.pc = "GetNextNav"
    /\ Run(GetNextNav(db, sm),
           IF GetNextNav(db, sm).ret.ptr = "nil" THEN "done" ELSE "GetNav",
           consumer.seen)

LoopNext == LoopInit \/ LoopPopulate \/ LoopGetNav \/ LoopGetNextNav

\* once in the loop the program keeps running until it leaves it
SpecLoop == LoopStart /\ [][LoopNext]_vars /\ WF_vars(LoopGetNav \/ LoopGetNextNav)

(***************************************************************************)
(* First runs.  setDefault issues AddCountries, AddStates, AddCities and   *)
(* AddZips as four transactions (executeTransaction only calls fn), so the *)
(* process can stop between two of them; the next process starts on what   *)
(* was committed.                                                          *)
(***************************************************************************)
\* the process stops inside the setDefault of Init after j of its inserts
CrashInSetDefault ==
    /\ sm.phase = "new"
    /\ DbCountTotal(db.countries) = 0
    /\ \E ld \in LocationDataChoices, j \in 1..3 :
          /\ j + 1 <= Len(seedStores(db, ld))
          /\ db' = seedStores(db, ld)[j + 1]
    /\ sm' = NewStateManager
    /\ UNCHANGED <<build, options, hist, consumer>>

BootNext ==
    \/ DoInit
    \/ CrashInSetDefault
    \/ Restart
    \/ DoGetNextNav
    \/ DoMarkComplete

\* the processes of a deployment from its first run on: each calls Init and
\* then walks the sequence, and the first ones can stop while seeding
SpecBoot == Init /\ [][BootNext]_vars

(***************************************************************************)
(* Properties.                                                             *)
(***************************************************************************)
\* the positions of the rows of nav_sessions with completed = 0
ActiveRows(d) == { i \in 1..Len(d.sessions) : ~ d.sessions[i].Completed }

\* C1: in a run whose entities are never changed, a session row inserted
\* while nav_sessions already holds rows -- by GetNextNav, or by Init after
\* the process was stopped and restarted -- is for the step that follows the
\* step of the newest row: no step is repeated and none is skipped, also when
\* the newest row was completed before the restart.
C1_SessionsFollowSequenceOrder ==
    [][ ( /\ ~ hist'.changed
          /\ db.sessions # <<>>
          /\ Len(db'.sessions) > Len(db.sessions) )
        => hist'.lastIndex = hist.lastIndex + 1 ]_vars

\* C2: nav_sessions holds at most one row with completed = 0, and a row is
\* inserted only when the table holds no such row (ResetNav deletes every
\* row before it inserts).
C2_AtMostOneActiveSession ==
    [][ /\ Cardinality(ActiveRows(db')) <= 1
        /\ Len(db'.sessions) > Len(db.sessions) => ActiveRows(db) = {} ]_vars

\* an active session exists and GetNextNav was called on it: a second active
\* row would have been inserted had the call not been a no-op
C2_Witness ==
    /\ sm.phase = "ready"
    /\ Len(db.sessions) = 2
    /\ Cardinality(ActiveRows(db)) = 1

RowsWithId(tbl, id) == { tbl[i] : i \in { j \in 1..Len(tbl) : tbl[j].ID = id } }

\* a session row records, by value, the fields of the step nav
RowIsForStep(d, row, nav) ==
    /\ row.CountryShort = nav.Country
    /\ row.StateShort = nav.StateShort
    /\ IF nav.Zip = None THEN row.ZipID = NoId
       ELSE \E z \in RowsWithId(d.zips, row.ZipID) : z.Zip = nav.Zip
    /\ IF nav.City = None THEN row.CityID = NoId
       ELSE \E c \in RowsWithId(d.cities, row.CityID) : c.City = nav.City
    /\ IF nav.Query = None THEN row.QueryID = NoId
       ELSE \E q \in RowsWithId(d.queries, row.QueryID) : q.Query = nav.Query

\* C4: in a run without entity mutations, when the session of the current
\* step is completed and the step at index i has a successor, GetNextNav moves
\* the cursor to exactly i+1, returns the step at i+1 of the sequence, and
\* appends one session row with completed = 0 that records that step; it is
\* then the only active row.  (From index 0 successive calls so return
\* Sequence[1], Sequence[2], ... each once and in order.)
C4_GetNextNavStepsByOne ==
    ( /\ sm.phase = "ready"
      /\ ~ hist.changed
      /\ db.sessions # <<>>
      /\ ActiveRows(db) = {}
      /\ sm.currentIndex + 1 < Len(sm.navOrder) )
    => LET r == GetNextNav(db, sm)
           n == Len(db.sessions)
       IN  /\ r.err = "nil"
           /\ r.sm.currentIndex = sm.currentIndex + 1
           /\ r.ret.ptr = "set"
           /\ r.ret.Nav = sm.navOrder[sm.currentIndex + 2]
           /\ r.ret = r.sm.currentNav
           /\ r.sm.navOrder = sm.navOrder
           /\ Len(r.db.sessions) = n + 1
           /\ SubSeq(r.db.sessions, 1, n) = db.sessions
           /\ ~ r.db.sessions[n + 1].Completed
           /\ r.db.sessions[n + 1].Page = EmptyBlob
           /\ RowIsForStep(r.db, r.db.sessions[n + 1], sm.navOrder[sm.currentIndex + 2])
           /\ ActiveRows(r.db) = {n + 1}

\* a process that never restarted has stepped from index 0 to index 2: three
\* sessions, one per step, the first two completed
C4_Witness ==
    /\ sm.phase = "ready"
    /\ ~ hist.changed
    /\ sm.currentIndex = 2
    /\ hist.lastIndex = 2
    /\ Len(db.sessions) = 3
    /\ ActiveRows(db) = {3}
    /\ \A i \in 1..3 : RowIsForStep(db, db.sessions[i], sm.navOrder[i])

\* MarkPageAsDone for each page of order in turn, starting from the result r
RECURSIVE MarkAll(_, _)
MarkAll(r, order) ==
    IF order = <<>> THEN r
    ELSE MarkAll(MarkPageAsDone(r.db, r.sm, Head(order)), Tail(order))

\* the pages 1..total that the list pages does not hold, ascending
RemainingPages(total, pages) ==
    SelectSeq([i \in 1..total |-> i], LAMBDA p : p \notin Range(pages))

\* C5: with an active session on the current step, SetPageNav(total, pages)
\* followed by MarkPageAsDone for every remaining page of 1..total, in any
\* order, leaves the response with the "completed" page sentinel and the
\* session with completed = 1, and the session is not completed before the
\* last of these calls.
C5_MarkingAllPagesCompletes ==
    (sm.phase = "ready" /\ sm.currentNav.ptr = "set" /\ ActiveRows(db) # {})
    => \A total \in 1..MaxPage, pages \in PageLists, spare \in BOOLEAN :
          ( /\ Range(pages) \subseteq 1..total
            /\ spare => pages # <<>>
            /\ RemainingPages(total, pages) # <<>> )
          => \A order \in Perms(RemainingPages(total, pages)) :
                LET pos == DbGetCurrentNavSession(db.sessions)
                    r0 == SetPageNav(db, sm, total, pages, spare)
                    r == MarkAll(r0, order)
                IN  /\ r.sm.currentNav.Page = CompletedPage
                    /\ r.db.sessions[pos].Completed
                    /\ \A k \in 0..(Len(order) - 1) :
                          ~ MarkAll(r0, SubSeq(order, 1, k)).db.sessions[pos].Completed

\* the newest session row holds a pagination blob whose set of completed
\* pages has the size of its declared total
PagesReachedTotal(d) ==
    /\ d.sessions # <<>>
    /\ LET blob == d.sessions[Len(d.sessions)].Page
       IN  blob.kind = "json" /\ Cardinality(Range(blob.pages)) = blob.total

\* C6: GetNextNav moves the cursor off the current step only if the
\* completed pages of that step's session had reached the declared total;
\* after any other public operation (MarkComplete, ResetDatabase,
\* ClearSearchQueries, a failed call) GetNextNav leaves the cursor in place.
C6_PagesReachingTotalSoleTrigger ==
    (sm.phase = "ready" /\ sm.currentNav.ptr = "set")
    => ( GetNextNav(db, sm).sm.currentIndex # sm.currentIndex => PagesReachedTotal(db) )

\* C7: for every page p, a second MarkPageAsDone(p) changes nothing the
\* first left: the page state of the response, the pagination blob and the
\* completed flag of the session (and all else in the store and the manager).
C7_MarkPageAsDoneTwice ==
    sm.phase = "ready"
    => \A p \in 1..MaxPage :
          LET r1 == MarkPageAsDone(db, sm, p)
              r2 == MarkPageAsDone(r1.db, r1.sm, p)
          IN  r2.db = r1.db /\ r2.sm = r1.sm /\ r2.err = r1.err

\* a page was marked done on an unfinished pagination: the blob of the active
\* session holds it and the list held by the response does not, so a second
\* MarkPageAsDone of it runs past the already-marked test
C7_Witness ==
    /\ sm.phase = "ready"
    /\ sm.currentNav.ptr = "set"
    /\ sm.currentNav.Page.kind = "PageNav"
    /\ ActiveRows(db) # {}
    /\ \E p \in 1..MaxPage :
          /\ p \in Range(db.sessions[DbGetCurrentNavSession(db.sessions)].Page.pages)
          /\ p \notin Range(sm.currentNav.Page.Pages)

\* C8: when a session with completed = 0 was persisted for the step at index
\* i and the entities and the format are unchanged, Init by a new
\* StateManager on the store sets the cursor index to i.
C8_RestoreRelocatesCursor ==
    (sm.phase = "ready" /\ ~ hist.changed /\ ActiveRows(db) # {})
    => \A ld \in LocationDataChoices, spare \in BOOLEAN :
          InitSM(db, NewStateManager, options, ld, build.perIter, spare).sm.currentIndex
              = hist.lastIndex

\* no step of the sequence of the manager s is recorded by the session row
NoStepMatches(d, s, row) ==
    \A i \in 1..Len(s.navOrder) : ~ RowIsForStep(d, row, s.navOrder[i])

\* C9: Init by a new StateManager on the store.  When an active session
\* exists and no step of the freshly expanded sequence matches it, the
\* cursor index is 0, no error is returned and no row is written.  When no
\* active session exists, the cursor index is 0 and, the sequence being
\* non-empty, one session row with completed = 0 that records Sequence[0] is
\* appended; when the sequence is empty nothing is persisted.
C9_RestoreFallsBackToZero ==
    sm.phase = "ready"
    => \A ld \in LocationDataChoices, spare \in BOOLEAN :
          LET r == InitSM(db, NewStateManager, options, ld, build.perIter, spare)
              pos == DbGetCurrentNavSession(db.sessions)
              n == Len(db.sessions)
          IN  IF pos # 0
              THEN NoStepMatches(db, r.sm, db.sessions[pos])
                   => r.err = "nil" /\ r.sm.currentIndex = 0 /\ r.db = db
              ELSE /\ r.err = "nil"
                   /\ r.sm.currentIndex = 0
                   /\ IF r.sm.navOrder = <<>> THEN r.db = db
                      ELSE /\ Len(r.db.sessions) = n + 1
                           /\ SubSeq(r.db.sessions, 1, n) = db.sessions
                           /\ ActiveRows(r.db) = {n + 1}
                           /\ RowIsForStep(r.db, r.db.sessions[n + 1], r.sm.navOrder[1])

\* Init restored an active session that no step matches (its query was
\* cleared after it was saved at a later index) and the cursor fell back to 0
C9_Witness ==
    /\ sm.phase = "ready"
    /\ ActiveRows(db) # {}
    /\ NoStepMatches(db, sm, db.sessions[DbGetCurrentNavSession(db.sessions)])
    /\ hist.lastIndex > 0
    /\ sm.currentIndex = 0
    /\ sm.currentNav.ptr = "set"

\* the sequence is exhausted: the cursor is past the last step, the response
\* is nil and no session is active
Exhausted(d, s) ==
    /\ s.phase = "ready"
    /\ s.currentNav.ptr = "nil"
    /\ s.currentIndex >= Len(s.navOrder)
    /\ ActiveRows(d) = {}

\* GetNextNav at or past the last step, with no session active, returns nil,
\* writes nothing and leaves the sequence exhausted
GetNextNavAtEndReturnsNil(d, s) ==
    (s.phase = "ready" /\ ActiveRows(d) = {} /\ s.currentIndex + 1 >= Len(s.navOrder))
    => LET r == GetNextNav(d, s)
       IN  r.ret.ptr = "nil" /\ r.err = "nil" /\ r.db = d /\ Exhausted(r.db, r.sm)

\* C10 as stated: GetNextNav with the last step completed returns nil and
\* creates no session, and once the sequence is exhausted every step of the
\* same process, in a run whose entities are never changed, leaves it
\* exhausted: later GetNextNav calls return nil and no session is active again.
C10_ExhaustionTerminal ==
    [][ /\ GetNextNavAtEndReturnsNil(db', sm')
        /\ (Exhausted(db, sm) /\ sm'.phase = "ready" /\ ~ hist'.changed)
           => Exhausted(db', sm') ]_vars

\* C10 amended: as above, for every step of the process other than ResetNav
\* (which deletes the sessions and starts again at index 0).
C10_ExhaustionTerminalUntilResetNav ==
    [][ /\ GetNextNavAtEndReturnsNil(db', sm')
        /\ ( /\ Exhausted(db, sm)
             /\ sm'.phase = "ready"
             /\ ~ hist'.changed
             /\ ~ DoResetNav )
           => Exhausted(db', sm') ]_vars

\* GetNextNav was called twice after the last step of a non-empty sequence
\* was completed
C10_Witness ==
    /\ Exhausted(db, sm)
    /\ sm.navOrder # <<>>
    /\ db.sessions # <<>>
    /\ ~ hist.changed
    /\ sm.currentIndex > Len(sm.navOrder)

\* C11: whenever GetNav returns a response, its HasNext flag is true iff the
\* cursor index is strictly less than len(navOrder) - 1, also after a restore
\* and after the sequence was expanded again by AddSearchQueries,
\* ClearSearchQueries, AddCities, AddStates or AddCountries.
C11_HasNextMatchesCursor ==
    (sm.phase = "ready" /\ GetNav(sm).ptr = "set")
    => (GetNav(sm).HasNext <=> sm.currentIndex < Len(sm.navOrder) - 1)

C13_CountriesInCodeOrder ==
    sm.phase = "ready"
    => \A i, j \in 1..Len(sm.navOrder) :
          i < j => ~ StrLess(sm.navOrder[j].Country, sm.navOrder[i].Country)

\* the fields of a step that are set (non-nil)
Populated(nav) ==
    { f \in {"Query", "Zip", "City", "State", "StateShort", "Country", "CountryShort",
             "County"} : nav[f] # None }

\* the fields a format declares, read off its name: query, zip, city, county
\* stand for their field, state for the state name and code, country for the
\* country name and code
Declared(format) ==
    (IF format \in { NavFormatQueryZip, NavFormatQueryZipCountry, NavFormatQueryCity,
                     NavFormatQueryCityState, NavFormatQueryCityStateCountry,
                     NavFormatQueryState, NavFormatQueryStateCountry,
                     NavFormatQueryCounty, NavFormatQuery }
     THEN {"Query"} ELSE {})
    \cup (IF format \in { NavFormatZip, NavFormatZipCountry, NavFormatQueryZip,
                          NavFormatQueryZipCountry }
          THEN {"Zip"} ELSE {})
    \cup (IF format \in { NavFormatCity, NavFormatCityState, NavFormatCityStateCountry,
                          NavFormatQueryCity, NavFormatQueryCityState,
                          NavFormatQueryCityStateCountry }
          THEN {"City"} ELSE {})
    \cup (IF format \in { NavFormatCityState, NavFormatCityStateCountry,
                          NavFormatQueryCityState, NavFormatQueryCityStateCountry,
                          NavFormatState, NavFormatStateCountry, NavFormatQueryState,
                          NavFormatQueryStateCountry }
          THEN {"State", "StateShort"} ELSE {})
    \cup (IF format \in { NavFormatZipCountry, NavFormatQueryZipCountry,
                          NavFormatCityStateCountry, NavFormatQueryCityStateCountry,
                          NavFormatStateCountry, NavFormatQueryStateCountry }
          THEN {"Country", "CountryShort"} ELSE {})
    \cup (IF format \in { NavFormatQueryCounty, NavFormatCounty }
          THEN {"County"} ELSE {})

\* C14: for every one of the 17 formats, every step of the expansion of the
\* entities the manager holds has exactly the fields the format declares set,
\* no extra and none missing (a zip step carries no country field).
C14_StepFieldsMatchFormat ==
    sm.phase = "ready"
    => \A f \in Formats :
          LET order == generateNavOrder(f, build.perIter, sm.countries, sm.states,
                                        sm.cities, sm.zips, sm.queries)
          IN  \A i \in 1..Len(order) : Populated(order[i]) = Declared(f)

\* the query texts offered to AddSearchQueries one at a time
NewTexts == { "Realtor", "Dentist" }

\* the number of geographic units the expansion of the manager s emits per
\* query, summed over the loaded countries: zips, cities (for the formats
\* with a state, those whose state resolves), states, or cities with a county
GeoUnits(s) ==
    LET ofCountry(row, c) == row.CountryShort = s.countries[c].CountryShort
        pairs(rows) == (1..Len(s.countries)) \X (1..Len(rows))
    IN  IF s.format \in { NavFormatQueryZip, NavFormatQueryZipCountry }
        THEN Cardinality({ p \in pairs(s.zips) : ofCountry(s.zips[p[2]], p[1]) })
        ELSE IF s.format = NavFormatQueryCity
        THEN Cardinality({ p \in pairs(s.cities) : ofCountry(s.cities[p[2]], p[1]) })
        ELSE IF s.format \in { NavFormatQueryCityState, NavFormatQueryCityStateCountry }
        THEN Cardinality({ p \in pairs(s.cities) :
                 /\ ofCountry(s.cities[p[2]], p[1])
                 /\ \E k \in 1..Len(s.states) :
                       /\ ofCountry(s.states[k], p[1])
                       /\ s.states[k].StateShort = s.cities[p[2]].StateShort })
        ELSE IF s.format \in { NavFormatQueryState, NavFormatQueryStateCountry }
        THEN Cardinality({ p \in pairs(s.states) : ofCountry(s.states[p[2]], p[1]) })
        ELSE IF s.format = NavFormatQueryCounty
        THEN Cardinality({ p \in pairs(s.cities) :
                 ofCountry(s.cities[p[2]], p[1]) /\ s.cities[p[2]].County # None })
        ELSE 0

\* every row of tbl that is marked used is still at its place, marked used,
\* in tbl2
UsedKept(tbl, tbl2) ==
    /\ Len(tbl2) >= Len(tbl)
    /\ \A i \in 1..Len(tbl) : tbl[i].Used => tbl2[i] = tbl[i]

\* C15: under a query-prefixed format, AddSearchQueries with one query text
\* that the store does not hold succeeds, grows the sequence by exactly the
\* number of geographic units emitted per query, and leaves set every used
\* flag that was set in the store.
C15_AddedQueryGrowsByUnits ==
    (sm.phase = "ready" /\ HasQueryPrefix(sm.format))
    => \A t \in NewTexts :
          (\A i \in 1..Len(db.queries) : db.queries[i].Query # t)
          => LET r == AddSearchQueries(db, sm, <<t>>, build.perIter)
             IN  /\ r.err = "nil"
                 /\ Len(r.sm.navOrder) = Len(sm.navOrder) + GeoUnits(sm)
                 /\ UsedKept(db.countries, r.db.countries)
                 /\ UsedKept(db.states, r.db.states)
                 /\ UsedKept(db.cities, r.db.cities)
                 /\ UsedKept(db.zips, r.db.zips)
                 /\ UsedKept(db.queries, r.db.queries)

\* the expansion, under the format of the manager s, of the entities the
\* store d holds for the target country of s (what Init would load)
StoreExpansion(d, s, perIter) ==
    LET countries == DbGetCountries(d.countries, s.targetCountry)
        states == DbGetStates(d.states, CountryShorts(countries))
    IN  generateNavOrder(s.format, perIter, countries, states,
                         DbGetCities(d.cities, CountryShorts(countries), StateShorts(states)),
                         DbGetZips(d.zips, CountryShorts(countries)),
                         DbGetQueries(d.queries))

\* the handler result r, when it is a success, leaves the sequence equal to
\* the expansion of the store it leaves
ExpandsStore(r, perIter) ==
    r.err = "nil" => r.sm.navOrder = StoreExpansion(r.db, r.sm, perIter)

\* C16: after every successful AddSearchQueries (of a non-empty batch),
\* ClearSearchQueries, AddCities, AddStates or AddCountries, the in-memory
\* sequence equals the expansion, under the active format, of the entities
\* the store then holds for the target country.
C16_SequenceFollowsStore ==
    sm.phase = "ready"
    => /\ \A texts \in QueryBatches :
             ExpandsStore(AddSearchQueries(db, sm, texts, build.perIter), build.perIter)
       /\ ExpandsStore(ClearSearchQueries(db, sm, build.perIter), build.perIter)
       /\ \A cities \in CityBatches :
             ExpandsStore(AddCities(db, sm, cities, build.perIter), build.perIter)
       /\ \A states \in StateBatches :
             ExpandsStore(AddStates(db, sm, states, build.perIter), build.perIter)
       /\ \A countries \in CountryBatches :
             ExpandsStore(AddCountries(db, sm, countries, build.perIter), build.perIter)

\* the session rows of the store d with completed = 1
CompletedRows(d) == { d.sessions[i] : i \in { j \in 1..Len(d.sessions) : d.sessions[j].Completed } }

\* C17: a used flag is set only on the entities of a consumed step: every
\* zip, city, query, state and country marked used in the store is referenced
\* by a session with completed = 1, never only by the session of the step
\* that was just started.
C17_UsedOnlyWhenConsumed ==
    /\ \A i \in 1..Len(db.zips) :
          db.zips[i].Used => \E row \in CompletedRows(db) : row.ZipID = db.zips[i].ID
    /\ \A i \in 1..Len(db.cities) :
          db.cities[i].Used => \E row \in CompletedRows(db) : row.CityID = db.cities[i].ID
    /\ \A i \in 1..Len(db.queries) :
          db.queries[i].Used => \E row \in CompletedRows(db) : row.QueryID = db.queries[i].ID
    /\ \A i \in 1..Len(db.states) :
          db.states[i].Used
          => \E row \in CompletedRows(db) :
                /\ row.StateShort = db.states[i].StateShort
                /\ row.CountryShort = db.states[i].CountryShort
    /\ \A i \in 1..Len(db.countries) :
          db.countries[i].Used
          => \E row \in CompletedRows(db) : row.CountryShort = db.countries[i].CountryShort

\* the entities the session row references are all marked used in the store d
RowEntitiesUsed(d, row) ==
    /\ \A c \in Range(d.countries) : c.CountryShort = row.CountryShort => c.Used
    /\ \A q \in RowsWithId(d.queries, row.QueryID) : row.QueryID # NoId => q.Used
    /\ \A z \in RowsWithId(d.zips, row.ZipID) : row.ZipID # NoId => z.Used
    /\ \A c \in RowsWithId(d.cities, row.CityID) : row.CityID # NoId => c.Used
    /\ \A st \in Range(d.states) :
          (row.StateShort # None /\ st.StateShort = row.StateShort
             /\ st.CountryShort = row.CountryShort) => st.Used

\* every zip, city and query marked used in the store d is referenced by a
\* session row, and every state and country marked used is that of a session
\* row
UsedEntitiesHaveRow(d) ==
    /\ \A z \in Range(d.zips) : z.Used => \E row \in Range(d.sessions) : row.ZipID = z.ID
    /\ \A c \in Range(d.cities) : c.Used => \E row \in Range(d.sessions) : row.CityID = c.ID
    /\ \A q \in Range(d.queries) : q.Used => \E row \in Range(d.sessions) : row.QueryID = q.ID
    /\ \A st \in Range(d.states) :
          st.Used => \E row \in Range(d.sessions) :
                        row.StateShort = st.StateShort /\ row.CountryShort = st.CountryShort
    /\ \A c \in Range(d.countries) :
          c.Used => \E row \in Range(d.sessions) : row.CountryShort = c.CountryShort

\* C18: the insert of a session and the used-flag updates of its step are one
\* atomic unit: in every reachable state of the store, also after the process
\* stopped between two writes, every entity a session row references is
\* marked used and every entity marked used is referenced by a session row.
C18_SessionAndFlagsAtomic ==
    /\ \A row \in Range(db.sessions) : RowEntitiesUsed(db, row)
    /\ UsedEntitiesHaveRow(db)

\* no row of the five entity tables of the store d is marked used
NoUsedFlags(d) ==
    \A tbl \in {d.countries, d.states, d.cities, d.zips, d.queries} :
       \A row \in Range(tbl) : ~ row.Used

\* C19: ResetDatabase leaves no session row and no used flag, and restarts
\* navigation: when it returns the cursor index is 0 and the current response
\* is the step Sequence[0].
C19_ResetDatabaseRestarts ==
    sm.phase = "ready"
    => LET r == ResetDatabase(db, sm, build.perIter)
       IN  /\ r.err = "nil"
           /\ r.db.sessions = <<>>
           /\ NoUsedFlags(r.db)
           /\ r.sm.currentIndex = 0
           /\ r.sm.navOrder # <<>>
              => r.sm.currentNav.ptr = "set" /\ r.sm.currentNav.Nav = r.sm.navOrder[1]

\* some record of the batch has an empty value in one of the fields
MissesField(batch, fields) ==
    \E i \in 1..Len(batch) : \E f \in fields : batch[i][f] = ""

\* the handler result r is an error that left the store and the manager
\* (entities, sequence, cursor, response) as they were
Rejected(r) == r.err = "error" /\ r.db = db /\ r.sm = sm

\* C20: a bulk add is all-or-nothing: when some record passed to AddCities,
\* AddStates, AddCountries or AddSearchQueries misses a required field, the
\* call returns an error and the store, the in-memory entities, the sequence
\* and the cursor are unchanged, whatever valid records the batch also holds.
C20_BulkAddAllOrNothing ==
    sm.phase = "ready"
    => /\ \A cities \in CityBatches :
             MissesField(cities, {"City", "State", "StateShort", "CountryShort"})
             => Rejected(AddCities(db, sm, cities, build.perIter))
       /\ \A states \in StateBatches :
             MissesField(states, {"State", "StateShort", "CountryShort"})
             => Rejected(AddStates(db, sm, states, build.perIter))
       /\ \A countries \in CountryBatches :
             MissesField(countries, {"Country", "CountryShort"})
             => Rejected(AddCountries(db, sm, countries, build.perIter))
       /\ \A texts \in QueryBatches :
             (\E i \in 1..Len(texts) : texts[i] = "")
             => Rejected(AddSearchQueries(db, sm, texts, build.perIter))

\* a batch was rejected after the cursor had moved: one Add* call was made
\* under a query format and the store holds what it held before the call (no
\* query, the seeded countries, states, cities and zips) and the cursor is
\* past index 0
C20_Witness ==
    /\ sm.phase = "ready"
    /\ hist.muts = 1
    /\ HasQueryPrefix(sm.format)
    /\ db.queries = <<>>
    /\ Len(db.countries) = 2 /\ Len(db.states) = 2
    /\ Len(db.cities) = 3 /\ Len(db.zips) = 2
    /\ sm.currentIndex > 0

(***************************************************************************)
(* C21: store errors are always propagated.  In every reachable state, for *)
(* every public operation the state admits, every argument offered to it   *)
(* and every store call k its run makes, the run in which call k fails     *)
(* returns a non-nil error.                                                *)
(***************************************************************************)
C21_StoreErrorsPropagated ==
    /\ sm.phase = "new" =>
          \A ld \in LocationDataChoices, spare \in BOOLEAN :
             \A k \in 1..InitCalls(db, sm, options, ld, build.perIter, spare) :
                InitFailing(db, sm, options, ld, build.perIter, spare, k).err # "nil"
    /\ sm.phase = "ready" =>
          /\ \A k \in 1..GetNextNavCalls(db, sm) : GetNextNavFailing(db, sm, k).err # "nil"
          /\ \A k \in 1..MarkCompleteCalls(db, sm) : MarkCompleteFailing(db, sm, k).err # "nil"
          /\ \A total \in 1..MaxPage, pages \in PageLists, spare \in BOOLEAN :
                \A k \in 1..SetPageNavCalls(db, sm) :
                   SetPageNavFailing(db, sm, total, pages, spare, k).err # "nil"
          /\ \A page \in 1..MaxPage :
                \A k \in 1..MarkPageAsDoneCalls(db, sm, page) :
                   MarkPageAsDoneFailing(db, sm, page, k).err # "nil"
          /\ \A spare \in BOOLEAN :
                \A k \in 1..ResetNavCalls(db, sm, spare) :
                   ResetNavFailing(db, sm, spare, k).err # "nil"
          /\ \A k \in 1..ResetDatabaseCalls :
                ResetDatabaseFailing(db, sm, build.perIter, k).err # "nil"
          /\ \A texts \in QueryBatches :
                \A k \in 1..AddSearchQueriesCalls(db, sm, texts, build.perIter) :
                   AddSearchQueriesFailing(db, sm, texts, build.perIter, k).err # "nil"
          /\ \A k \in 1..ClearSearchQueriesCalls :
                ClearSearchQueriesFailing(db, sm, build.perIter, k).err # "nil"
          /\ \A cities \in CityBatches :
                \A k \in 1..AddCitiesCalls(db, sm, cities, build.perIter) :
                   AddCitiesFailing(db, sm, cities, build.perIter, k).err # "nil"
          /\ \A states \in StateBatches :
                \A k \in 1..AddStatesCalls(db, sm, states, build.perIter) :
                   AddStatesFailing(db, sm, states, build.perIter, k).err # "nil"
          /\ \A countries \in CountryBatches :
                \A k \in 1..AddCountriesCalls(db, sm, countries, build.perIter) :
                   AddCountriesFailing(db, sm, countries, build.perIter, k).err # "nil"

\* GetNextNav is about to open a session and the statement that marks the
\* country fails: the session row is written and the error is returned
C21_Witness ==
    /\ sm.phase = "ready"
    /\ GetNextNavCalls(db, sm) >= 3
    /\ GetNextNavFailing(db, sm, 3).err = "error"
    /\ Len(GetNextNavFailing(db, sm, 3).db.sessions) = Len(db.sessions) + 1

(***************************************************************************)
(* C22: the placeholder of a step is its query, when it has one, followed  *)
(* by the first field it has among city, zip, state and county, in that    *)
(* order of preference; it is "Unknown" exactly when the step has none of  *)
(* the five fields.  Checked for every combination of present and absent   *)
(* fields and for the response the manager holds.                          *)
(***************************************************************************)
\* the steps with every combination of present and absent fields
NavShapes ==
    { [EmptyNav EXCEPT !.Query = f[1], !.City = f[2], !.Zip = f[3], !.State = f[4],
                       !.County = f[5], !.Country = "United States", !.CountryShort = "US"] :
        f \in {None, "Dentist"} \X {None, "Salem"} \X {None, "6000"}
              \X {None, "Washington"} \X {None, "King"} }

\* the fields the placeholder draws on that the step has, by preference
PlaceholderFields(nav) ==
    SelectSeq(<< nav.City, nav.Zip, nav.State, nav.County >>, LAMBDA v : v # None)

PlaceholderAsSpecified(nav, placeholder) ==
    LET rest == PlaceholderFields(nav)
    IN  /\ placeholder = <<"Unknown">> <=> (nav.Query = None /\ rest = <<>>)
        /\ nav.Query # None /\ rest # <<>> => placeholder = << nav.Query, rest[1] >>
        /\ nav.Query # None /\ rest = <<>> => placeholder = << nav.Query >>
        /\ nav.Query = None /\ rest # <<>> => placeholder = << rest[1] >>

C22_PlaceholderByPreference ==
    /\ \A nav \in NavShapes : PlaceholderAsSpecified(nav, generatePlaceholder(nav))
    /\ sm.currentNav.ptr # "nil" =>
          PlaceholderAsSpecified(sm.currentNav.Nav, sm.currentNav.Placeholder)

\* the manager holds a response for a step with a city and a state: the
\* placeholder is the city
C22_Witness ==
    /\ sm.currentNav.ptr # "nil"
    /\ sm.currentNav.Nav.City # None
    /\ sm.currentNav.Nav.State # None
    /\ sm.currentNav.Placeholder = << sm.currentNav.Nav.City >>

(***************************************************************************)
(* C23: the loop of the README, which only alternates GetNav and           *)
(* GetNextNav, ends once it is entered, and when it ends without an error  *)
(* GetNav has shown every step of the sequence.                            *)
(***************************************************************************)
LoopEndedAfterEveryStep ==
    /\ consumer.pc = "done"
    /\ consumer.failed \/ consumer.seen = 0..(Len(sm.navOrder) - 1)

C23_LoopVisitsEveryStepAndEnds == (consumer.pc = "GetNav") ~> LoopEndedAfterEveryStep

(***************************************************************************)
(* C24: in the program of the README, after Init and Populate on a fresh   *)
(* store, the sequence contains the steps of the entities Populate         *)
(* inserted and GetNav returns a step, not nil.                            *)
(***************************************************************************)
\* the program has just run Populate (only Populate inserts the zip 90001)
PopulateRan ==
    /\ consumer.pc = "GetNav"
    /\ consumer.seen = {}
    /\ \E i \in 1..Len(db.zips) : db.zips[i].Zip = "90001"

\* a step of an entity Populate inserts
FromPopulate(nav) ==
    nav.Zip = "90001" \/ nav.Query \in {"Realtor", "Restaurant"} \/ nav.StateShort = "CA"

C24_PopulateExtendsSequence ==
    PopulateRan =>
       /\ GetNav(sm).ptr # "nil"
       /\ \A nav \in Range(StoreExpansion(db, sm, build.perIter)) :
             FromPopulate(nav) => nav \in Range(sm.navOrder)

(***************************************************************************)
(* C25: for a query-prefixed format the sequence is ordered by country,    *)
(* then by stored query in insertion order, then by geographic unit, with  *)
(* one step per (country, query, unit) whose fields hold the values of     *)
(* that query and that unit; steps of distinct queries or units differ.    *)
(* Stated for the query-zip format of the deployments.                     *)
(***************************************************************************)
\* the steps of the query-zip format for the entities the manager holds
QueryZipSteps(s) ==
    Flatten([c \in 1..Len(s.countries) |->
        Flatten([q \in 1..Len(s.queries) |->
            LET zips == getZipsByCountry(s.zips, s.countries[c].CountryShort)
            IN  [z \in 1..Len(zips) |->
                    [EmptyNav EXCEPT !.Query = s.queries[q].Query, !.Zip = zips[z].Zip,
                                     !.Country = s.countries[c].CountryShort]]])])

C25_QueryFormatStepPerQueryAndUnit ==
    sm.phase = "ready" /\ sm.format = NavFormatQueryZip =>
       /\ \A i, j \in 1..Len(sm.queries) : i < j => sm.queries[i].ID < sm.queries[j].ID
       /\ sm.navOrder = QueryZipSteps(sm)
       /\ \A i, j \in 1..Len(sm.navOrder) : i # j => sm.navOrder[i] # sm.navOrder[j]

CityFormats ==
    { NavFormatCity, NavFormatCityState, NavFormatCityStateCountry,
      NavFormatQueryCity, NavFormatQueryCityState, NavFormatQueryCityStateCountry }

\* the cities the manager holds that belong to a loaded country and whose
\* state code names a state of that country
EmittingCities(s) ==
    { i \in 1..Len(s.cities) :
        /\ \E c \in 1..Len(s.countries) :
              s.countries[c].CountryShort = s.cities[i].CountryShort
        /\ \E k \in 1..Len(s.states) :
              /\ s.states[k].StateShort = s.cities[i].StateShort
              /\ s.states[k].CountryShort = s.cities[i].CountryShort }

NoRepeatedStep(steps) == \A i, j \in 1..Len(steps) : i # j => steps[i] # steps[j]

C28_NoTwoIdenticalSteps ==
    sm.phase = "ready" =>
       /\ NoRepeatedStep(sm.navOrder)
       /\ \A f \in Formats :
             NoRepeatedStep(generateNavOrder(f, build.perIter, sm.countries, sm.states,
                                             sm.cities, sm.zips, sm.queries))

(***************************************************************************)
(* C29: when the target country is a code C and not "all", every step of   *)
(* the sequence is a step of country C in every reachable state (the       *)
(* states after AddCountries, AddStates and AddCities included), the       *)
(* entities the manager holds are those of C, and so the expansion of      *)
(* every format has only steps of C.                                       *)
(***************************************************************************)
OfCountry(rows, code) == \A i \in 1..Len(rows) : rows[i].CountryShort = code

C29_StepsOfTargetCountryOnly ==
    sm.phase = "ready" /\ sm.targetCountry # "all" =>
       /\ \A i \in 1..Len(sm.navOrder) : sm.navOrder[i].Country = sm.targetCountry
       /\ OfCountry(sm.countries, sm.targetCountry)
       /\ OfCountry(sm.states, sm.targetCountry)
       /\ OfCountry(sm.cities, sm.targetCountry)
       /\ OfCountry(sm.zips, sm.targetCountry)
       /\ \A f \in Formats :
             \A nav \in Range(generateNavOrder(f, build.perIter, sm.countries, sm.states,
                                               sm.cities, sm.zips, sm.queries)) :
                nav.Country = sm.targetCountry

\* the target is US, the store holds Canada (added by AddCountries) next to
\* the seeded Australia, and the sequence has its steps
C29_Witness ==
    /\ sm.phase = "ready"
    /\ sm.targetCountry = "US"
    /\ \E i \in 1..Len(db.countries) : db.countries[i].CountryShort = "CA"
    /\ \E i \in 1..Len(db.cities) : db.cities[i].CountryShort = "AU"
    /\ hist.muts = 1
    /\ Len(sm.navOrder) >= 2

(***************************************************************************)
(* C30: the page state of the current step only moves forward: when the    *)
(* response is "completed", a SetPageNav or MarkPageAsDone that leaves the *)
(* cursor on the step leaves the response "completed".                     *)
(***************************************************************************)
C30_CompletedStaysCompleted ==
    [][(/\ sm.phase = "ready"
        /\ sm.currentNav.ptr = "set"
        /\ sm.currentNav.Page.kind = "completed"
        /\ DoSetPageNav \/ DoMarkPageAsDone
        /\ sm'.currentIndex = sm.currentIndex)
       => sm'.currentNav.Page.kind = "completed"]_vars

\* a page list whose elements are pages of 1..total, each at most once
PagesWithinTotal(pages, total) ==
    /\ \A i \in 1..Len(pages) : pages[i] \in 1..total
    /\ \A i, j \in 1..Len(pages) : i # j => pages[i] # pages[j]

(***************************************************************************)
(* C31: while the current step is paginated and not completed, the page    *)
(* list held by the response and the page list of the pagination blob of   *)
(* the active session hold only pages of 1..total, each at most once,      *)
(* whatever integers SetPageNav and MarkPageAsDone were called with.       *)
(***************************************************************************)
C31_PagesWithinTotal ==
    (sm.phase = "ready" /\ sm.currentNav.ptr = "set")
    => /\ sm.currentNav.Page.kind = "PageNav"
          => PagesWithinTotal(sm.currentNav.Page.Pages, sm.currentNav.Page.Total)
       /\ \A pos \in ActiveRows(db) :
             db.sessions[pos].Page.kind = "json"
             => PagesWithinTotal(db.sessions[pos].Page.pages, db.sessions[pos].Page.total)

\* the rows of a table with their used flags cleared
Unused(tbl) == [i \in 1..Len(tbl) |-> [tbl[i] EXCEPT !.Used = FALSE]]

\* the store holds the whole seed dataset of the data file, in one of the
\* orders setDefault can insert it in
SeedComplete(d) ==
    \E ld \in LocationDataChoices :
       LET full == seedStores(NewDB, ld)
       IN  /\ Len(full) = 5
           /\ Unused(d.countries) = full[5].countries
           /\ Unused(d.states) = full[5].states
           /\ Unused(d.cities) = full[5].cities
           /\ Unused(d.zips) = full[5].zips

(***************************************************************************)
(* C32: the first-run bootstrap is done as a whole: in the runs of a       *)
(* deployment in which processes call Init and can stop while seeding,     *)
(* once an Init has returned without error the store holds the complete    *)
(* seed dataset (countries, states, cities and zips).                      *)
(***************************************************************************)
C32_SeedCompleteAfterInit == sm.phase = "ready" => SeedComplete(db)

\* the store d2 holds every session row of d, none of them turned from
\* completed back to active
SessionsKept(d, d2) ==
    /\ Len(d2.sessions) >= Len(d.sessions)
    /\ \A i \in 1..Len(d.sessions) : d.sessions[i].Completed => d2.sessions[i].Completed

\* the table tbl2 holds the rows of tbl, with no used flag cleared
RowsKept(tbl, tbl2) ==
    /\ Len(tbl2) = Len(tbl)
    /\ \A i \in 1..Len(tbl) :
          /\ [tbl2[i] EXCEPT !.Used = tbl[i].Used] = tbl[i]
          /\ tbl[i].Used => tbl2[i].Used

\* the sessions ResetNav leaves: none, or the one it started, which no call
\* has paginated or completed yet
OnlyFreshSession(d) ==
    /\ Len(d.sessions) <= 1
    /\ \A i \in 1..Len(d.sessions) :
          ~ d.sessions[i].Completed /\ d.sessions[i].Page = EmptyBlob

(***************************************************************************)
(* C33: session rows are removed only by an explicit reset.  No operation  *)
(* other than ResetNav and ResetDatabase lowers the number of session rows *)
(* or turns a completed flag from true back to false; ResetNav deletes all *)
(* the sessions there were, sets the cursor index to 0 and leaves the      *)
(* countries, states, cities, zips and queries of the store and of the     *)
(* manager in place.                                                       *)
(***************************************************************************)
C33_SessionsRemovedOnlyByReset ==
    /\ sm.phase = "new" =>
          \A ld \in LocationDataChoices, spare \in BOOLEAN :
             SessionsKept(db, InitSM(db, sm, options, ld, build.perIter, spare).db)
    /\ sm.phase = "ready" =>
          /\ SessionsKept(db, GetNextNav(db, sm).db)
          /\ SessionsKept(db, MarkComplete(db, sm).db)
          /\ \A total \in 1..MaxPage, pages \in PageLists, spare \in BOOLEAN :
                SessionsKept(db, SetPageNav(db, sm, total, pages, spare).db)
          /\ \A page \in 1..MaxPage : SessionsKept(db, MarkPageAsDone(db, sm, page).db)
          /\ \A texts \in QueryBatches :
                SessionsKept(db, AddSearchQueries(db, sm, texts, build.perIter).db)
          /\ SessionsKept(db, ClearSearchQueries(db, sm, build.perIter).db)
          /\ \A cities \in CityBatches :
                SessionsKept(db, AddCities(db, sm, cities, build.perIter).db)
          /\ \A states \in StateBatches :
                SessionsKept(db, AddStates(db, sm, states, build.perIter).db)
          /\ \A countries \in CountryBatches :
                SessionsKept(db, AddCountries(db, sm, countries, build.perIter).db)
          /\ SessionsKept(db, Populate(db, sm, build.perIter).db)
          /\ \A spare \in BOOLEAN :
                LET r == ResetNav(db, sm, spare)
                IN  /\ OnlyFreshSession(r.db)
                    /\ r.sm.currentIndex = 0
                    /\ RowsKept(db.countries, r.db.countries)
                    /\ RowsKept(db.states, r.db.states)
                    /\ RowsKept(db.cities, r.db.cities)
                    /\ RowsKept(db.zips, r.db.zips)
                    /\ RowsKept(db.queries, r.db.queries)
                    /\ r.sm.countries = sm.countries /\ r.sm.states = sm.states
                    /\ r.sm.cities = sm.cities /\ r.sm.zips = sm.zips
                    /\ r.sm.queries = sm.queries

\* ResetNav is called with the cursor past index 0 on a store that holds a
\* completed session, a paginated or second session and used entities
C33_Witness ==
    /\ sm.phase = "ready"
    /\ sm.currentIndex > 0
    /\ Len(db.sessions) >= 2
    /\ \E i \in 1..Len(db.sessions) : db.sessions[i].Completed
    /\ \E i \in 1..Len(db.zips) : db.zips[i].Used
    /\ Len(ResetNav(db, sm, FALSE).db.sessions) = 1

(***************************************************************************)
(* C34: the page state of the response is a faithful copy of the stored    *)
(* one.  After SetPageNav and MarkPageAsDone calls on the current step     *)
(* while a session is active, the PageNav that GetNav returns has the      *)
(* completed pages and the total of the pagination blob of the active      *)
(* session.                                                                *)
(***************************************************************************)
C34_ResponsePagesMatchBlob ==
    (/\ sm.phase = "ready"
     /\ hist.pageOps > 0
     /\ GetNav(sm).ptr = "set"
     /\ GetNav(sm).Page.kind = "PageNav"
     /\ ActiveRows(db) # {})
    => LET blob == db.sessions[DbGetCurrentNavSession(db.sessions)].Page
       IN  /\ blob.kind = "json"
           /\ Range(blob.pages) = Range(GetNav(sm).Page.Pages)
           /\ blob.total = GetNav(sm).Page.Total

\* GetNextNav returned an error with result r on the store d and the manager
\* s: the cursor and the response are those of s, and the GetNextNav called
\* again stops on the step a GetNextNav without the failure would have
\* stopped on
FailureLeavesCursor(d, s, r) ==
    r.err = "error"
    => /\ r.sm.currentIndex = s.currentIndex
       /\ r.sm.currentNav = s.currentNav
       /\ GetNextNav(r.db, r.sm).sm.currentIndex = GetNextNav(d, s).sm.currentIndex

(***************************************************************************)
(* C35: a GetNextNav that returns an error -- its read of the active       *)
(* session or one of the store calls of its save failed -- leaves the      *)
(* cursor index and the current response unchanged, and the GetNextNav     *)
(* called again yields the successor of the step that was current: no step *)
(* is skipped.                                                             *)
(***************************************************************************)
C35_FailedGetNextNavKeepsCursor ==
    sm.phase = "ready"
    => /\ FailureLeavesCursor(db, sm, GetNextNav(db, sm))
       /\ \A k \in 1..GetNextNavCalls(db, sm) :
             FailureLeavesCursor(db, sm, GetNextNavFailing(db, sm, k))

(***************************************************************************)
(* C36: whenever GetNav returns a response, the cursor index is inside the *)
(* sequence and the step of the response is the step of the sequence at    *)
(* the cursor index -- on a fresh start, after GetNextNav, after the       *)
(* restore of a persisted session, and after a mutation expanded the       *)
(* sequence again.                                                         *)
(***************************************************************************)
C36_ResponseIsStepAtCursor ==
    (sm.phase = "ready" /\ GetNav(sm).ptr = "set")
    => /\ sm.currentIndex < Len(sm.navOrder)
       /\ GetNav(sm).Nav = sm.navOrder[sm.currentIndex + 1]

\* the city and the zip the session row references are of the row's country,
\* and the city is of the row's state
RowReferencesOwnEntities(d, row) ==
    /\ \A i \in 1..Len(d.cities) :
          (row.CityID # NoId /\ d.cities[i].ID = row.CityID)
          => /\ d.cities[i].CountryShort = row.CountryShort
             /\ row.StateShort # None => d.cities[i].StateShort = row.StateShort
    /\ \A i \in 1..Len(d.zips) :
          (row.ZipID # NoId /\ d.zips[i].ID = row.ZipID)
          => d.zips[i].CountryShort = row.CountryShort

\* the rows of tbl whose used flag is set in tbl2 and not in tbl
NewlyUsed(tbl, tbl2) == { i \in 1..Len(tbl) : tbl2[i].Used /\ ~ tbl[i].Used }

\* the used flags that turn the store d into d2 are set on states, cities
\* and zips of the country code
FlagsOfCountry(d, d2, code) ==
    /\ \A i \in NewlyUsed(d.states, d2.states) : d.states[i].CountryShort = code
    /\ \A i \in NewlyUsed(d.cities, d2.cities) : d.cities[i].CountryShort = code
    /\ \A i \in NewlyUsed(d.zips, d2.zips) : d.zips[i].CountryShort = code

(***************************************************************************)
(* C37: a session references the entities of its own step.  After every    *)
(* step of the system the city and the zip whose ids a session row stores  *)
(* belong to the row's country and the city to the row's state, and the    *)
(* used flags the step set are on states, cities and zips of the country   *)
(* of the session it saved -- also when another state or country holds a   *)
(* city, a zip or a state code of the same text.                           *)
(***************************************************************************)
C37_SessionReferencesOwnEntities ==
    [][/\ \A i \in 1..Len(db'.sessions) : RowReferencesOwnEntities(db', db'.sessions[i])
       /\ (\/ NewlyUsed(db.states, db'.states) # {}
           \/ NewlyUsed(db.cities, db'.cities) # {}
           \/ NewlyUsed(db.zips, db'.zips) # {})
          => /\ db'.sessions # <<>>
             /\ FlagsOfCountry(db, db', db'.sessions[Len(db'.sessions)].CountryShort)]_vars

(***************************************************************************)
(* C38: the cursor index always satisfies 0 <= index <= len(Sequence):     *)
(* GetNextNav calls after exhaustion and mutations that shrink the         *)
(* sequence never leave it beyond the end.                                 *)
(***************************************************************************)
C38_CursorWithinSequence ==
    sm.phase = "ready" => (0 <= sm.currentIndex /\ sm.currentIndex <= Len(sm.navOrder))

\* the texts are not empty and none of them is stored in the queries table
NotYetStored(d, texts) ==
    \A k \in 1..Len(texts) :
       texts[k] # "" /\ \A i \in 1..Len(d.queries) : d.queries[i].Query # texts[k]

\* every step of the sequence before is at its index in the sequence after
KeepsIndices(before, after) ==
    /\ Len(after) >= Len(before)
    /\ \A i \in 1..Len(before) : after[i] = before[i]

(***************************************************************************)
(* C39: with a single loaded country and a query-prefixed format,          *)
(* AddSearchQueries of query texts that are not yet stored only appends    *)
(* steps: every step that was at index i before the call is at index i     *)
(* after it, so the cursor index still designates the same step.           *)
(***************************************************************************)
C39_AddSearchQueriesOnlyAppends ==
    (sm.phase = "ready" /\ HasQueryPrefix(sm.format) /\ Len(sm.countries) = 1)
    => \A texts \in QueryBatches :
          NotYetStored(db, texts)
          => KeepsIndices(sm.navOrder,
                          AddSearchQueries(db, sm, texts, build.perIter).sm.navOrder)

====
